---- MODULE Spec2Model ----
(***************************************************************************)
(* Model of vessify: the transaction store with its cursor pagination      *)
(* (lib/transaction.ts), the extraction orchestrator and the AI adapter    *)
(* (lib/bedrock.ts), the transaction routes with their authentication      *)
(* middleware (routes/transaction.ts), the rate limiter                    *)
(* (middleware/rateLimit.ts, index.ts), the member routes                  *)
(* (routes/organization.ts, lib/organization.ts) and the TransactionsList  *)
(* component of the frontend (components/transactions-list.tsx).           *)
(***************************************************************************)
EXTENDS Integers, Sequences, FiniteSets, TLC

VARIABLES
    transactions,   \* the rows of table "transactions"
    clock,          \* the database clock, in milliseconds (TIMESTAMP(3))
    lastCall,       \* the latest direct call of getTransactions and its result
    walk,           \* a cursor walk: repeated getTransactions with nextCursor
    parse,          \* a call of parseTransactionText
    organizations,  \* the ids of the rows of table "organizations"
    members,        \* the rows of table "organization_members"
    req,            \* a request to the transaction routes, and its response
    rate,           \* the rate limiter: its store, the time, its requests
    view            \* the TransactionsList component and its calls in flight

httpVars == <<organizations, members, req>>

vars == <<transactions, clock, lastCall, walk, parse, organizations, members,
          req, rate, view>>

-----------------------------------------------------------------------------
(* Bounds of the model *)

MaxTxn == 3         \* rows the table may hold under direct calls
MaxWalkTxn == 5     \* rows the table may hold during a cursor walk
MaxClock == 4       \* the clock runs 0..MaxClock
MaxLimit == 2       \* page sizes requested: 1..MaxLimit (0: limit absent)
MaxPages == 3       \* page fetches of one cursor walk
MaxInserts == 1     \* rows created while one cursor walk is under way
MaxHttpTxn == 1     \* rows the table may hold under requests to the routes
MaxTime == 3        \* Date.now() runs 0..MaxTime under the rate limiter
WindowMs == 2       \* config.windowMs of the rate limiter
MaxRequests == 2    \* config.maxRequests of the rate limiter
MaxInFlight == 2    \* requests of a limiter that are inside next() at once
MaxPassLog == 3     \* passes of one key remembered within one windowMs
MaxListTxn == 2     \* rows the table may hold under the TransactionsList component
ListLimit == 1      \* the page size the component asks for (20 in the code)
MaxCalls == 2       \* calls of getTransactions the component has in flight
MaxShown == 3       \* items the component may come to hold

(* Program constants *)

DefaultLimit == 20  \* params.limit || 20

Orgs == {"org1", "org2"}
Users == {"u1", "u2"}
NoCursor == 0       \* cursor undefined (or the empty string, which is falsy)
\* JavaScript values carry their type: null, a number, a string, a date.
NULL == [t |-> "null"]
Number(v) == [t |-> "number", v |-> v]
String(v) == [t |-> "string", v |-> v]

Min(a, b) == IF a < b THEN a ELSE b

\* The least element of a set of numbers.
SetMin(S) == CHOOSE x \in S : \A y \in S : x <= y

\* F(x), with x evaluated once.
With(x, F(_)) == CHOOSE r \in {F(v) : v \in {x}} : TRUE

-----------------------------------------------------------------------------
(* JavaScript strings and regular expressions.  A string is a sequence of   *)
(* one-character strings ("RUPEE" stands for the rupee sign U+20B9); a      *)
(* position is the number of characters before it.  A pattern's matcher    *)
(* gives the positions where a match begun at a position can end, in the   *)
(* order the backtracking matcher tries them (greedy first).               *)

Digit == {"0", "1", "2", "3", "4", "5", "6", "7", "8", "9"}
Space == {" ", "\n", "\t", "\r"}
Lower == <<"a", "b", "c", "d", "e", "f", "g", "h", "i", "j", "k", "l", "m",
           "n", "o", "p", "q", "r", "s", "t", "u", "v", "w", "x", "y", "z">>
Upper == <<"A", "B", "C", "D", "E", "F", "G", "H", "I", "J", "K", "L", "M",
           "N", "O", "P", "Q", "R", "S", "T", "U", "V", "W", "X", "Y", "Z">>
Letter == {Lower[i] : i \in 1..26} \cup {Upper[i] : i \in 1..26}

\* The character after position i, "" at the end of the string.
At(s, i) == IF i >= 0 /\ i < Len(s) THEN s[i + 1] ELSE ""

\* c.toLowerCase()
LowerChar(c) ==
    IF \E i \in 1..26 : Upper[i] = c
    THEN Lower[CHOOSE i \in 1..26 : Upper[i] = c]
    ELSE c

\* s.toLowerCase()
toLowerCase(s) == [i \in 1..Len(s) |-> LowerChar(s[i])]

\* The literal lit stands at position i (ignoreCase: the i flag).
Literal(s, i, lit, ignoreCase) ==
    /\ i + Len(lit) <= Len(s)
    /\ \A k \in 1..Len(lit) :
          IF ignoreCase THEN LowerChar(s[i + k]) = LowerChar(lit[k])
          ELSE s[i + k] = lit[k]

\* How many characters of the set follow position i, at most cap.
RECURSIVE Run(_, _, _, _)
Run(s, i, set, cap) ==
    IF cap = 0 \/ At(s, i) \notin set THEN 0
    ELSE 1 + Run(s, i + 1, set, cap - 1)

\* <<i + n, ..., i + lo>>: the ends of a greedy repetition that can take
\* between lo and n characters.
Greedy(i, lo, n) == [j \in 1..(n - lo + 1) |-> i + n - j + 1]

\* \d{1,k}
DigitsEnds(s, i, k) == Greedy(i, 1, Run(s, i, Digit, k))

\* \s*
SpacesEnds(s, i) == Greedy(i, 0, Run(s, i, Space, Len(s)))

\* (?:,\d{n})*
RECURSIVE CommaGroupsEnds(_, _, _)
CommaGroupsEnds(s, i, n) ==
    IF At(s, i) = "," /\ Run(s, i + 1, Digit, n) = n
    THEN CommaGroupsEnds(s, i + 1 + n, n) \o <<i>>
    ELSE <<i>>

\* (?:\.\d{2})?
DecimalsEnds(s, i) ==
    IF At(s, i) = "." /\ Run(s, i + 1, Digit, 2) = 2 THEN <<i + 3, i>> ELSE <<i>>

\* -?
SignEnds(s, i) == IF At(s, i) = "-" THEN <<i + 1, i>> ELSE <<i>>

\* The ends of `first` followed by a pattern whose ends from e are Then(e).
Chain(first, Then(_)) ==
    LET Ends(es) ==
            LET f[n \in 0..Len(es)] ==
                    IF n = 0 THEN <<>> ELSE f[n - 1] \o Then(es[n])
            IN  f[Len(es)]
    IN  With(first, Ends)

\* -?\d{1,k}(?:,\d{2})*(?:,\d{3})*(?:\.\d{2})?  (pairs: the Indian grouping
\* (?:,\d{2})* is part of the pattern)
NumberEnds(s, i, k, pairs) ==
    LET Dec(e) == DecimalsEnds(s, e)
        Thousands(e) == Chain(CommaGroupsEnds(s, e, 3), Dec)
        Pairs(e) == IF pairs THEN Chain(CommaGroupsEnds(s, e, 2), Thousands)
                    ELSE Thousands(e)
        Digits(e) == Chain(DigitsEnds(s, e, k), Pairs)
    IN  Chain(SignEnds(s, i), Digits)

\* The first end of a list the condition accepts, as <<end>>; <<>> if none.
FirstEnd(ends, Ok(_)) ==
    LET Pick(es) ==
            LET First(ok) == IF ok = {} THEN <<>> ELSE <<es[SetMin(ok)]>>
            IN  With({j \in 1..Len(es) : Ok(es[j])}, First)
    IN  With(ends, Pick)

\* A capture is <<from, to>>: the captured text is s[from+1..to]; <<>> is
\* no match.  text.match(pattern) finds the match that begins leftmost.
Leftmost(s, MatchAt(_)) ==
    LET Pick(found) ==
            IF found = {} THEN <<>>
            ELSE (CHOOSE m \in found : \A n \in found : m[1] <= n[1])[2]
    IN  With({m \in {<<p, MatchAt(p)>> : p \in 0..Len(s)} : m[2] # <<>>}, Pick)

\* prefix \s* number: the capture of a number that follows a prefix ending at i.
NumberAfter(s, i, k, pairs) ==
    LET Capture(w) == LET To(ends) == IF ends = <<>> THEN <<>>
                                      ELSE <<<<w, Head(ends)>>>>
                      IN  With(NumberEnds(s, w, k, pairs), To)
        First(caps) == IF caps = <<>> THEN <<>> ELSE Head(caps)
    IN  With(Chain(SpacesEnds(s, i), Capture), First)

\* /[₹Rs\.]\s*(-?\d{1,2}(?:,\d{2})*(?:,\d{3})*(?:\.\d{2})?)/
AmountPattern1(s) ==
    LET MatchAt(p) == IF At(s, p) \in {"RUPEE", "R", "s", "."}
                      THEN NumberAfter(s, p + 1, 2, TRUE) ELSE <<>>
    IN  Leftmost(s, MatchAt)

\* /(-?\d{1,2}(?:,\d{2})*(?:,\d{3})*(?:\.\d{2})?)\s*(?:INR|Rs|₹)/i
AmountPattern2(s) ==
    LET Unit(w) == \/ Literal(s, w, <<"I", "N", "R">>, TRUE)
                   \/ Literal(s, w, <<"R", "s">>, TRUE)
                   \/ At(s, w) = "RUPEE"
        Suffix(e) == FirstEnd(SpacesEnds(s, e), Unit) # <<>>
        MatchAt(p) == LET To(e) == IF e = <<>> THEN <<>> ELSE <<p, e[1]>>
                      IN  With(FirstEnd(NumberEnds(s, p, 2, TRUE), Suffix), To)
    IN  Leftmost(s, MatchAt)

\* /Amount:\s*(-?\d{1,3}(?:,\d{2})*(?:,\d{3})*(?:\.\d{2})?)/i
AmountPattern3(s) ==
    LET MatchAt(p) == IF Literal(s, p, <<"A", "m", "o", "u", "n", "t", ":">>, TRUE)
                      THEN NumberAfter(s, p + 7, 3, TRUE) ELSE <<>>
    IN  Leftmost(s, MatchAt)

\* /\$\s*(-?\d{1,3}(?:,\d{3})*(?:\.\d{2})?)/
AmountPattern4(s) ==
    LET MatchAt(p) == IF At(s, p) = "$"
                      THEN NumberAfter(s, p + 1, 3, FALSE) ELSE <<>>
    IN  Leftmost(s, MatchAt)

\* /(?:^|\s)(-?\d{1,3}(?:,\d{2})*(?:,\d{3})*(?:\.\d{2})?)(?:\s|$)/
AmountPattern5(s) ==
    LET Suffix(e) == At(s, e) \in Space \/ e = Len(s)
        From(b) == LET To(e) == IF e = <<>> THEN <<>> ELSE <<b, e[1]>>
                   IN  With(FirstEnd(NumberEnds(s, b, 3, TRUE), Suffix), To)
        AtStart(m) == IF m # <<>> THEN m
                      ELSE IF At(s, 0) \in Space THEN From(1) ELSE <<>>
        MatchAt(p) == IF p = 0 THEN With(From(0), AtStart)
                      ELSE IF At(s, p) \in Space THEN From(p + 1)
                      ELSE <<>>
    IN  Leftmost(s, MatchAt)

\* The digits of ds as a number.
RECURSIVE DigitsValue(_)
DigitsValue(ds) ==
    IF ds = <<>> THEN 0
    ELSE 10 * DigitsValue(SubSeq(ds, 1, Len(ds) - 1))
         + (CHOOSE d \in 0..9 : ToString(d) = ds[Len(ds)])

\* str.replace(/,/g, '')
RECURSIVE StripCommas(_)
StripCommas(str) ==
    IF str = <<>> THEN <<>>
    ELSE IF Head(str) = "," THEN StripCommas(Tail(str))
    ELSE <<Head(str)>> \o StripCommas(Tail(str))

\* parseFloat(str) of a string -?\d+(\.\d{2})?, in hundredths.
parseFloat(str) ==
    LET Value(body) ==
            LET n == Run(body, 0, Digit, Len(body))
            IN  100 * DigitsValue(SubSeq(body, 1, n))
                + (IF n < Len(body) THEN DigitsValue(SubSeq(body, n + 2, Len(body)))
                   ELSE 0)
    IN  IF At(str, 0) = "-" THEN 0 - Value(Tail(str)) ELSE Value(str)

\* The number as it is, with its sign.
Signed(x) == x

\* Math.abs
Abs(x) == IF x < 0 THEN 0 - x ELSE x

\* The first of the amount patterns that matches, as <<capture>>.
AmountMatch(text) ==
    LET First(ms) == LET Pick(hit) == IF hit = {} THEN <<>> ELSE ms[SetMin(hit)]
                     IN  With({i \in 1..5 : ms[i] # <<>>}, Pick)
    IN  With(<<AmountPattern1(text), AmountPattern2(text), AmountPattern3(text),
               AmountPattern4(text), AmountPattern5(text)>>, First)

\* The amount of parseTransactionTextWithRegex, a number in hundredths; NULL if no
\* pattern matches.
RegexAmount(text) ==
    LET Value(str) == With(parseFloat(str), Abs)
        Amount(m) == IF m = <<>> THEN NULL
                     ELSE Number(With(StripCommas(SubSeq(text, m[1] + 1, m[2])), Value))
    IN  With(AmountMatch(text), Amount)


-----------------------------------------------------------------------------
(* Dates: new Date(string) as V8 parses the strings the parser builds *)

Months == <<<<"j", "a", "n">>, <<"f", "e", "b">>, <<"m", "a", "r">>,
            <<"a", "p", "r">>, <<"m", "a", "y">>, <<"j", "u", "n">>,
            <<"j", "u", "l">>, <<"a", "u", "g">>, <<"s", "e", "p">>,
            <<"o", "c", "t">>, <<"n", "o", "v">>, <<"d", "e", "c">>>>

\* (Jan|Feb|...|Dec) at position i, ignoring case: the month's number, 0 if none.
MonthAt(s, i) ==
    LET Month(hit) == IF hit = {} THEN 0 ELSE CHOOSE m \in hit : TRUE
    IN  With({m \in 1..12 : Literal(s, i, Months[m], TRUE)}, Month)

IsMonth(x) == x >= 1 /\ x <= 12
IsDay(x) == x >= 1 /\ x <= 31

InvalidDate == [t |-> "date", valid |-> FALSE]

IsLeap(y) == (y % 4 = 0 /\ y % 100 # 0) \/ y % 400 = 0

DaysInMonth(y, m) ==
    IF m = 2 THEN (IF IsLeap(y) THEN 29 ELSE 28)
    ELSE IF m \in {4, 6, 9, 11} THEN 30 ELSE 31

\* MakeDay: the calendar day (year, month, day), a day past the end of the
\* month counted on into the next month.  zone: "utc" for the ISO form,
\* "local" for every other form.
MakeDate(y, m, d, zone) ==
    IF d <= DaysInMonth(y, m)
    THEN [t |-> "date", valid |-> TRUE, year |-> y, month |-> m, day |-> d, zone |-> zone]
    ELSE IF m = 12
    THEN [t |-> "date", valid |-> TRUE, year |-> y + 1, month |-> 1,
          day |-> d - DaysInMonth(y, m), zone |-> zone]
    ELSE [t |-> "date", valid |-> TRUE, year |-> y, month |-> m + 1,
          day |-> d - DaysInMonth(y, m), zone |-> zone]

\* DayComposer::Write of the legacy parser: year 0..49 is 20xx, 50..99 19xx.
LegacyDate(y, m, d) ==
    LET year == IF y >= 0 /\ y <= 49 THEN y + 2000
                ELSE IF y >= 50 /\ y <= 99 THEN y + 1900 ELSE y
    IN  IF IsMonth(m) /\ IsDay(d) THEN MakeDate(year, m, d, "local")
        ELSE InvalidDate

\* new Date(`${mon} ${a}, ${b}`): a named month and two numbers.
\* new Date(`${a}-${mon}-${b}`) reads the same three tokens.
NamedMonthDate(mon, a, b) ==
    IF ~IsDay(a) THEN LegacyDate(a, mon, b) ELSE LegacyDate(b, mon, a)

\* new Date(`${a}-${b}-${c}`) for digit strings a, b, c: the ISO form
\* YYYY-MM-DD is UTC; any other is read by the legacy parser as three
\* numbers, year first when the first number cannot be a day, month first
\* otherwise.
NumericDate(a, b, c) ==
    LET x == DigitsValue(a)
        y == DigitsValue(b)
        z == DigitsValue(c)
    IN  IF /\ Len(a) = 4 /\ Len(b) = 2 /\ IsMonth(y)
           /\ Len(c) = 2 /\ IsDay(z)
        THEN MakeDate(x, y, z, "utc")
        ELSE IF ~IsDay(x) THEN LegacyDate(x, y, z)
        ELSE LegacyDate(z, x, y)

\* \s+ from position i: the position after the spaces, -1 if there is none.
Spaces1(s, i) ==
    LET End(n) == IF n = 0 THEN 0 - 1 ELSE i + n
    IN  With(Run(s, i, Space, Len(s)), End)

\* (Jan|...|Dec)[a-z]*\s+ at position i (i flag): <<month, end>> or <<>>.
MonthWord(s, i) ==
    LET Word(m) ==
            LET After(e) == IF e < 0 THEN <<>> ELSE <<m, e>>
            IN  IF m = 0 THEN <<>>
                ELSE With(Spaces1(s, i + 3 + Run(s, i + 3, Letter, Len(s))), After)
    IN  With(MonthAt(s, i), Word)

\* (\d{1,2})\s+(Jan|...|Dec)[a-z]*\s+(\d{4}) at position p (i flag):
\* <<day digits, month, year digits>> or <<>>.
DayMonthYearAt(s, p) ==
    LET Word(e) == IF Spaces1(s, e) < 0 THEN <<>> ELSE MonthWord(s, Spaces1(s, e))
        Year(mw) == mw # <<>> /\ Run(s, mw[2], Digit, 4) = 4
        Ok(e) == With(Word(e), Year)
        Match(d) ==
            LET Captures(mw) ==
                    <<SubSeq(s, p + 1, d[1]), mw[1], SubSeq(s, mw[2] + 1, mw[2] + 4)>>
            IN  IF d = <<>> THEN <<>> ELSE With(Word(d[1]), Captures)
    IN  With(FirstEnd(DigitsEnds(s, p, 2), Ok), Match)

\* Pattern 1: "11 Dec 2025".  The match begins with a digit, so the parser
\* takes its DD/MM/YYYY branch: new Date(`${match[3]}-${match[2]}-${match[1]}`).
DatePattern1(s) ==
    LET MatchAt(p) == DayMonthYearAt(s, p)
        Date(m) == IF m = <<>> THEN <<>>
                   ELSE <<NamedMonthDate(m[2], DigitsValue(m[3]), DigitsValue(m[1]))>>
    IN  With(Leftmost(s, MatchAt), Date)

\* Pattern 2: "Jan 15, 2024": new Date(`${match[1]} ${match[2]}, ${match[3]}`).
DatePattern2(s) ==
    LET Year(e) == LET c == IF At(s, e) = "," THEN <<e + 1, e>> ELSE <<e>>
                       Ok(k) == Spaces1(s, k) >= 0 /\ Run(s, Spaces1(s, k), Digit, 4) = 4
                       k == FirstEnd(c, Ok)
                   IN  IF k = <<>> THEN <<>> ELSE <<Spaces1(s, k[1])>>
        MatchAt(p) ==
            LET mw == MonthWord(s, p)
            IN  IF mw = <<>> THEN <<>>
                ELSE LET Ok(e) == Year(e) # <<>>
                         d == FirstEnd(DigitsEnds(s, mw[2], 2), Ok)
                     IN  IF d = <<>> THEN <<>>
                         ELSE <<mw[1], SubSeq(s, mw[2] + 1, d[1]),
                                SubSeq(s, Year(d[1])[1] + 1, Year(d[1])[1] + 4)>>
        Date(m) == IF m = <<>> THEN <<>>
                   ELSE <<NamedMonthDate(m[1], DigitsValue(m[2]), DigitsValue(m[3]))>>
    IN  With(Leftmost(s, MatchAt), Date)

Separator == {"/", "-"}

\* Pattern 3: (\d{1,2})[\/\-](\d{1,2})[\/\-](\d{2,4}), read as DD/MM/YYYY:
\* new Date(`${match[3]}-${match[2]}-${match[1]}`).
DatePattern3(s) ==
    LET Third(e) == At(s, e) \in Separator /\ Run(s, e + 1, Digit, 4) >= 2
        Second(e) == /\ At(s, e) \in Separator
                     /\ FirstEnd(DigitsEnds(s, e + 1, 2), Third) # <<>>
        MatchAt(p) ==
            LET a == FirstEnd(DigitsEnds(s, p, 2), Second)
            IN  IF a = <<>> THEN <<>>
                ELSE LET b == FirstEnd(DigitsEnds(s, a[1] + 1, 2), Third)[1]
                     IN  <<SubSeq(s, p + 1, a[1]), SubSeq(s, a[1] + 2, b),
                           SubSeq(s, b + 2, b + 1 + Run(s, b + 1, Digit, 4))>>
        Date(m) == IF m = <<>> THEN <<>> ELSE <<NumericDate(m[3], m[2], m[1])>>
    IN  With(Leftmost(s, MatchAt), Date)

\* Pattern 4: (\d{4})[\/\-](\d{1,2})[\/\-](\d{1,2}):
\* new Date(`${match[1]}-${match[2]}-${match[3]}`).
DatePattern4(s) ==
    LET Third(e) == At(s, e) \in Separator /\ DigitsEnds(s, e + 1, 2) # <<>>
        MatchAt(p) ==
            IF Run(s, p, Digit, 4) = 4 /\ At(s, p + 4) \in Separator
            THEN LET b == FirstEnd(DigitsEnds(s, p + 5, 2), Third)
                 IN  IF b = <<>> THEN <<>>
                     ELSE <<SubSeq(s, p + 1, p + 4), SubSeq(s, p + 6, b[1]),
                            SubSeq(s, b[1] + 2, Head(DigitsEnds(s, b[1] + 1, 2)))>>
            ELSE <<>>
        Date(m) == IF m = <<>> THEN <<>> ELSE <<NumericDate(m[1], m[2], m[3])>>
    IN  With(Leftmost(s, MatchAt), Date)

\* Pattern 5: "Date: 11 Dec 2025": new Date(`${match[2]} ${match[1]}, ${match[3]}`).
DatePattern5(s) ==
    LET Body(e) == DayMonthYearAt(s, e) # <<>>
        MatchAt(p) ==
            IF Literal(s, p, <<"D", "a", "t", "e", ":">>, TRUE)
            THEN LET w == FirstEnd(SpacesEnds(s, p + 5), Body)
                 IN  IF w = <<>> THEN <<>> ELSE DayMonthYearAt(s, w[1])
            ELSE <<>>
        Date(m) == IF m = <<>> THEN <<>>
                   ELSE <<NamedMonthDate(m[2], DigitsValue(m[1]), DigitsValue(m[3]))>>
    IN  With(Leftmost(s, MatchAt), Date)

\* The date of parseTransactionTextWithRegex: the date of the first pattern
\* that matches and gives a valid date; NULL if there is none.
RegexDate(text) ==
    LET First(ds) ==
            LET Pick(hit) == IF hit = {} THEN NULL ELSE ds[SetMin(hit)][1]
            IN  With({i \in 1..5 : ds[i] # <<>> /\ ds[i][1].valid}, Pick)
    IN  With(<<DatePattern1(text), DatePattern2(text), DatePattern3(text),
               DatePattern4(text), DatePattern5(text)>>, First)

-----------------------------------------------------------------------------
(* Description, category, confidence *)

MaxDescription == 255

\* str.substring(0, n)
substring(str, n) == SubSeq(str, 1, Min(n, Len(str)))

\* str.trim()
trim(str) ==
    LET Kept(keep) == IF keep = {} THEN <<>>
                      ELSE SubSeq(str, SetMin(keep),
                                  CHOOSE i \in keep : \A j \in keep : i >= j)
    IN  With({i \in 1..Len(str) : str[i] \notin Space}, Kept)

\* text.split('\n')
RECURSIVE split(_)
split(text) ==
    LET Parts(nl) ==
            IF nl = {} THEN <<text>>
            ELSE <<SubSeq(text, 1, SetMin(nl) - 1)>>
                 \o split(SubSeq(text, SetMin(nl) + 1, Len(text)))
    IN  With({i \in 1..Len(text) : text[i] = "\n"}, Parts)

\* text.split('\n').filter(line => line.trim().length > 0)
Lines(text) == SelectSeq(split(text), LAMBDA line : Len(trim(line)) > 0)

\* trimmed.match(/^[\d\$\.,\/\-\s]+$/): only numbers, dates or amounts
NumbersOnly(str) ==
    /\ Len(str) > 0
    /\ \A i \in 1..Len(str) : str[i] \in Digit \cup {"$", ".", ",", "/", "-"} \cup Space

\* The description and its confidence weight (in hundredths): the first
\* line that is not numbers only, trimmed (0.2); failing that the first
\* non-empty line (0.1); NULL for a text without a non-empty line.
RegexDescription(text) ==
    LET Describe(lines) ==
            LET Pick(found) ==
                    IF found # {}
                    THEN [description |->
                             String(substring(trim(lines[SetMin(found)]), MaxDescription)),
                          weight |-> 20]
                    ELSE IF Len(lines) > 0
                    THEN [description |-> String(substring(lines[1], MaxDescription)),
                          weight |-> 10]
                    ELSE [description |-> NULL, weight |-> 0]
            IN  With({i \in 1..Len(lines) : ~NumbersOnly(trim(lines[i]))}, Pick)
    IN  With(Lines(text), Describe)

\* lowerText.includes(keyword)
includes(str, keyword) ==
    \E p \in 0..(Len(str) - Len(keyword)) : Literal(str, p, keyword, FALSE)

\* categoryKeywords, in the order of the object's keys.
categoryKeywords ==
    <<
      [cat |-> <<"F", "o", "o", "d", " ", "&", " ", "D", "i", "n", "i", "n", "g">>, keywords |-> <<
          <<"r", "e", "s", "t", "a", "u", "r", "a", "n", "t">>,
          <<"f", "o", "o", "d">>, <<"c", "o", "f", "f", "e", "e">>,
          <<"c", "a", "f", "e">>, <<"p", "i", "z", "z", "a">>,
          <<"b", "u", "r", "g", "e", "r">>, <<"d", "i", "n", "i", "n", "g">>,
          <<"l", "u", "n", "c", "h">>, <<"d", "i", "n", "n", "e", "r">>,
          <<"b", "r", "e", "a", "k", "f", "a", "s", "t">>,
          <<"s", "w", "i", "g", "g", "y">>, <<"z", "o", "m", "a", "t", "o">>,
          <<"s", "t", "a", "r", "b", "u", "c", "k", "s">>,
          <<"m", "c", "d", "o", "n", "a", "l", "d">>, <<"k", "f", "c">>,
          <<"d", "o", "m", "i", "n", "o">>, <<"s", "u", "b", "w", "a", "y">>>>],
      [cat |-> <<"S", "h", "o", "p", "p", "i", "n", "g">>, keywords |-> <<
          <<"a", "m", "a", "z", "o", "n">>,
          <<"f", "l", "i", "p", "k", "a", "r", "t">>,
          <<"m", "y", "n", "t", "r", "a">>,
          <<"w", "a", "l", "m", "a", "r", "t">>,
          <<"t", "a", "r", "g", "e", "t">>, <<"s", "t", "o", "r", "e">>,
          <<"s", "h", "o", "p">>, <<"r", "e", "t", "a", "i", "l">>,
          <<"p", "u", "r", "c", "h", "a", "s", "e">>, <<"m", "a", "l", "l">>,
          <<"m", "a", "r", "k", "e", "t">>,
          <<"r", "e", "l", "i", "a", "n", "c", "e">>,
          <<"d", "m", "a", "r", "t">>>>],
      [cat |-> <<"T", "r", "a", "n", "s", "p", "o", "r", "t", "a", "t", "i", "o", "n">>, keywords |-> <<
          <<"u", "b", "e", "r">>, <<"o", "l", "a">>,
          <<"r", "a", "p", "i", "d", "o">>, <<"l", "y", "f", "t">>,
          <<"g", "a", "s">>, <<"f", "u", "e", "l">>,
          <<"p", "a", "r", "k", "i", "n", "g">>,
          <<"t", "r", "a", "n", "s", "i", "t">>, <<"t", "a", "x", "i">>,
          <<"t", "r", "a", "i", "n">>, <<"b", "u", "s">>,
          <<"m", "e", "t", "r", "o">>, <<"p", "e", "t", "r", "o", "l">>,
          <<"d", "i", "e", "s", "e", "l">>>>],
      [cat |-> <<"E", "n", "t", "e", "r", "t", "a", "i", "n", "m", "e", "n", "t">>, keywords |-> <<
          <<"m", "o", "v", "i", "e">>, <<"t", "h", "e", "a", "t", "e", "r">>,
          <<"n", "e", "t", "f", "l", "i", "x">>,
          <<"h", "o", "t", "s", "t", "a", "r">>, <<"p", "r", "i", "m", "e">>,
          <<"s", "p", "o", "t", "i", "f", "y">>, <<"g", "a", "m", "e">>,
          <<"c", "o", "n", "c", "e", "r", "t">>,
          <<"t", "i", "c", "k", "e", "t">>,
          <<"b", "o", "o", "k", "m", "y", "s", "h", "o", "w">>,
          <<"p", "v", "r">>, <<"i", "n", "o", "x">>>>],
      [cat |-> <<"U", "t", "i", "l", "i", "t", "i", "e", "s">>, keywords |-> <<
          <<"e", "l", "e", "c", "t", "r", "i", "c">>,
          <<"e", "l", "e", "c", "t", "r", "i", "c", "i", "t", "y">>,
          <<"w", "a", "t", "e", "r">>,
          <<"i", "n", "t", "e", "r", "n", "e", "t">>,
          <<"p", "h", "o", "n", "e">>, <<"u", "t", "i", "l", "i", "t", "y">>,
          <<"b", "i", "l", "l">>, <<"a", "i", "r", "t", "e", "l">>,
          <<"j", "i", "o">>, <<"b", "s", "n", "l">>,
          <<"v", "o", "d", "a", "f", "o", "n", "e">>, <<"m", "s", "e", "b">>,
          <<"b", "e", "s", "c", "o", "m">>>>],
      [cat |-> <<"H", "e", "a", "l", "t", "h", "c", "a", "r", "e">>, keywords |-> <<
          <<"p", "h", "a", "r", "m", "a", "c", "y">>,
          <<"d", "o", "c", "t", "o", "r">>,
          <<"m", "e", "d", "i", "c", "a", "l">>,
          <<"h", "o", "s", "p", "i", "t", "a", "l">>,
          <<"h", "e", "a", "l", "t", "h">>, <<"d", "e", "n", "t", "a", "l">>,
          <<"a", "p", "o", "l", "l", "o">>, <<"f", "o", "r", "t", "i", "s">>,
          <<"m", "e", "d", "p", "l", "u", "s">>,
          <<"c", "l", "i", "n", "i", "c">>>>],
      [cat |-> <<"T", "r", "a", "n", "s", "f", "e", "r">>, keywords |-> <<
          <<"t", "r", "a", "n", "s", "f", "e", "r">>,
          <<"p", "a", "y", "m", "e", "n", "t">>, <<"u", "p", "i">>,
          <<"n", "e", "f", "t">>, <<"i", "m", "p", "s">>,
          <<"r", "t", "g", "s">>, <<"p", "a", "y", "t", "m">>,
          <<"p", "h", "o", "n", "e", "p", "e">>, <<"g", "p", "a", "y">>,
          <<"g", "o", "o", "g", "l", "e", "p", "a", "y">>,
          <<"v", "e", "n", "m", "o">>, <<"p", "a", "y", "p", "a", "l">>,
          <<"z", "e", "l", "l", "e">>, <<"c", "a", "s", "h", "a", "p", "p">>>>]
    >>

\* The category: the first category one of whose keywords the lower-cased
\* text includes; NULL if there is none.
RegexCategory(text) ==
    LET Pick(hit) == IF hit = {} THEN NULL
                     ELSE String(categoryKeywords[SetMin(hit)].cat)
        Category(lowerText) ==
            With({i \in 1..Len(categoryKeywords) :
                    \E k \in 1..Len(categoryKeywords[i].keywords) :
                        includes(lowerText, categoryKeywords[i].keywords[k])}, Pick)
    IN  With(toLowerCase(text), Category)

\* parseTransactionTextWithRegex(text).  Amounts and confidence are in
\* hundredths: the weights 0.3, 0.3, 0.2 (0.1), 0.2 are 30, 30, 20 (10), 20.
parseTransactionTextWithRegex(text) ==
    LET Result(x) ==
            LET confidence == (IF x.amount # NULL THEN 30 ELSE 0)
                              + (IF x.date # NULL THEN 30 ELSE 0)
                              + x.desc.weight
                              + (IF x.category # NULL THEN 20 ELSE 0)
                confidenceFactors == (IF x.amount # NULL THEN 1 ELSE 0)
                                     + (IF x.date # NULL THEN 1 ELSE 0)
                                     + (IF x.desc.weight > 0 THEN 1 ELSE 0)
                                     + (IF x.category # NULL THEN 1 ELSE 0)
            IN  [amount |-> x.amount,
                 date |-> x.date,
                 description |-> x.desc.description,
                 category |-> x.category,
                 confidence |-> IF confidenceFactors > 0 THEN Min(confidence, 100)
                                ELSE 0]
    IN  With([amount |-> RegexAmount(text), date |-> RegexDate(text),
              desc |-> RegexDescription(text), category |-> RegexCategory(text)],
             Result)

-----------------------------------------------------------------------------
(* The AI adapter: extractTransactionWithBedrock, isBedrockConfigured *)

Undefined == [t |-> "undefined"]
Bool(v) == [t |-> "boolean", v |-> v]
\* an object or array whose content plays no part, {} or []
Object == [t |-> "object"]

\* typeof x === number
IsNumber(x) == x.t = "number"

\* Infinity and -Infinity, which JSON.parse gives for a literal beyond the
\* range of a double (1e999, -1e999): numbers above and below every other
\* number of the model.
Infinity == Number(2000000000)
NegativeInfinity == Number(0 - 2000000000)

\* Number.isFinite(x)
isFinite(x) == IsNumber(x) /\ x # Infinity /\ x # NegativeInfinity

\* ToBoolean(x): undefined, null, 0, "" and false are falsy.
Truthy(x) ==
    CASE x.t \in {"undefined", "null"} -> FALSE
      [] x.t = "number" -> x.v # 0
      [] x.t = "string" -> Len(x.v) > 0
      [] x.t = "boolean" -> x.v
      [] OTHER -> TRUE

\* extracted[f] of a parsed JSON value that is not null: undefined for a
\* key the object lacks and for every key of a number, string or array.
Get(extracted, f) == IF f \in DOMAIN extracted THEN extracted[f] ELSE Undefined

\* What client.send and the decoding of its response come to:
\*   send "rejects"    the call fails (network, credentials, throttling);
\*   send "malformed"  the body is not JSON of the shape content[0].text;
\*   send "text"       responseText is there, and wrap tells how it holds
\*                     the JSON value json: "bare" (the whole text),
\*                     "fenced" (in a ``` block), "embedded" (an object
\*                     amid prose), "none" (no { } at all), "broken" (a
\*                     { } span that is not JSON).
\* The JSON of responseText: <<value>>, or <<>> when the adapter throws
\* (JSON.parse fails on the span, or no span is found).
ResponseJson(bedrock) ==
    IF bedrock.wrap \in {"bare", "fenced", "embedded"} THEN <<bedrock.json>>
    ELSE <<>>

\* The result of the catch block: every field null, confidence 0.
Degraded ==
    [amount |-> NULL, date |-> NULL, description |-> NULL, category |-> NULL,
     confidence |-> Number(0)]

\* An adapter that takes any number the service gives as the confidence.
extractTransactionTrusting(bedrock) ==
    IF bedrock.send # "text" \/ ResponseJson(bedrock) = <<>> THEN Degraded
    ELSE LET extracted == ResponseJson(bedrock)[1]
             amount == Get(extracted, "amount")
             date == Get(extracted, "date")
             description == Get(extracted, "description")
             category == Get(extracted, "category")
             confidence == Get(extracted, "confidence")
         IN  IF extracted.t = "null" THEN Degraded
             ELSE IF Truthy(description) /\ description.t # "string" THEN Degraded
             ELSE [amount |-> IF IsNumber(amount) THEN Number(Abs(amount.v))
                              ELSE NULL,
                   date |-> IF Truthy(date) THEN date ELSE NULL,
                   description |-> IF Truthy(description)
                                   THEN String(substring(description.v, MaxDescription))
                                   ELSE NULL,
                   category |-> IF Truthy(category) THEN category ELSE NULL,
                   confidence |-> IF IsNumber(confidence) THEN confidence
                                  ELSE Number(50)]

\* extractTransactionWithBedrock(text) for an answer of the service.  The
\* whole body is inside try: a rejected call, an undecodable body, a text
\* without JSON, a null JSON value (reading null.amount) and a truthy
\* description that is no string (no substring method) all end in the
\* catch block, which returns Degraded; the function never throws.
\* Numbers are in hundredths; reasoning is not read by any caller.
extractTransactionWithBedrock(bedrock) ==
    IF bedrock.send # "text" \/ ResponseJson(bedrock) = <<>> THEN Degraded
    ELSE LET extracted == ResponseJson(bedrock)[1]
             amount == Get(extracted, "amount")
             date == Get(extracted, "date")
             description == Get(extracted, "description")
             category == Get(extracted, "category")
             confidence == Get(extracted, "confidence")
         IN  IF extracted.t = "null" THEN Degraded
             ELSE IF Truthy(description) /\ description.t # "string" THEN Degraded
             ELSE [amount |-> IF IsNumber(amount) THEN Number(Abs(amount.v))
                              ELSE NULL,
                   date |-> IF Truthy(date) THEN date ELSE NULL,
                   description |-> IF Truthy(description)
                                   THEN String(substring(description.v, MaxDescription))
                                   ELSE NULL,
                   category |-> IF Truthy(category) THEN category ELSE NULL,
                   confidence |-> IF /\ IsNumber(confidence)
                                     /\ confidence.v >= 0
                                     /\ confidence.v <= 100
                                  THEN confidence ELSE Number(50)]

\* isBedrockConfigured(): the three environment variables are set and not
\* empty.
isBedrockConfigured(env) ==
    env.AWS_REGION /\ env.AWS_ACCESS_KEY_ID /\ env.AWS_SECRET_ACCESS_KEY

-----------------------------------------------------------------------------
(* The orchestrator: parseTransactionText *)

\* new Date(str) for a string of the form a-b-c of digits, the form the
\* prompt asks the service for.
DateFromString(str) ==
    LET dash == {i \in 1..Len(str) : str[i] = "-"}
        i1 == CHOOSE i \in dash : \A j \in dash : i <= j
        i2 == CHOOSE i \in dash : \A j \in dash : i >= j
        a == SubSeq(str, 1, i1 - 1)
        b == SubSeq(str, i1 + 1, i2 - 1)
        c == SubSeq(str, i2 + 1, Len(str))
        Digits(x, lo, hi) == /\ Len(x) >= lo /\ Len(x) <= hi
                             /\ \A i \in 1..Len(x) : x[i] \in Digit
    IN  CASE /\ Cardinality(dash) = 2
             /\ Digits(a, 2, 4) /\ Digits(b, 1, 2) /\ Digits(c, 1, 2)
             -> NumericDate(a, b, c)

\* new Date(x) for a truthy x: a string is parsed, a number or true is
\* milliseconds since the epoch, an object or array of no date content
\* gives an invalid date.
NewDate(x) ==
    CASE x.t = "string" -> DateFromString(x.v)
      [] x.t = "number" -> [t |-> "date", valid |-> TRUE, epoch |-> x.v \div 100]
      [] x.t = "boolean" -> [t |-> "date", valid |-> TRUE, epoch |-> 1]
      [] OTHER -> InvalidDate

\* What a call that threw would hand to the catch of parseTransactionText.
Thrown == [t |-> "thrown"]

TextUnknown ==
    <<"z", "z", "z", " ", "q", "q", "q">>
TextStarbucks ==
    <<"S", "t", "a", "r", "b", "u", "c", "k", "s", " ", "C", "o", "f", "f",
      "e", "e", " ", "1", "2", "/", "1", "5", "/", "2", "0", "2", "4", " ",
      "RUPEE", "4", "2", "0", ".", "0", "0">>
TextAmazon ==
    <<"A", "m", "a", "z", "o", "n", " ", "P", "u", "r", "c", "h", "a", "s",
      "e", " ", "R", "s", ".", " ", "1", ",", "5", "0", "0", ".", "5", "0",
      " ", "d", "a", "t", "e", "d", " ", "1", "5", "-", "1", "2", "-", "2",
      "0", "2", "4">>
TextMultiline ==
    <<"RUPEE", "4", "2", "0", ".", "0", "0", "\n", "C", "o", "f", "f", "e",
      "e">>
TextDated ==
    <<"U", "b", "e", "r", " ", "r", "i", "d", "e", " ", "1", "1", " ", "D",
      "e", "c", " ", "2", "0", "2", "5", " ", "R", "s", " ", "2", "5", "0",
      ".", "0", "0">>
TextShort ==
    <<"R", "s", " ", "5">>
TextNegative ==
    <<"-", "RUPEE", "1", ",", "0", "0", "0", ".", "0", "0">>
TextMinus ==
    <<"R", "s", " ", "-", "4", "2", "0", ".", "0", "0">>
Texts == {TextUnknown, TextStarbucks, TextAmazon, TextMultiline, TextDated,
          TextShort, TextNegative, TextMinus}

\* parseTransactionTextWithRegex tabulated for the sample texts.
RegexResult == [text \in Texts |-> parseTransactionTextWithRegex(text)]

\* An orchestrator that fills the fields the service left null from the
\* regex parser.
parseTransactionTextMerging(text, env, bedrock) ==
    LET extracted == extractTransactionWithBedrock(bedrock)
        regex == RegexResult[text]
    IN  IF isBedrockConfigured(env)
        THEN [amount |-> IF extracted.amount # NULL THEN extracted.amount
                         ELSE regex.amount,
              date |-> IF Truthy(extracted.date) /\ NewDate(extracted.date).valid
                       THEN NewDate(extracted.date) ELSE regex.date,
              description |-> IF extracted.description # NULL
                              THEN extracted.description ELSE regex.description,
              category |-> IF extracted.category # NULL THEN extracted.category
                           ELSE regex.category,
              confidence |-> extracted.confidence.v]
        ELSE regex

\* parseTransactionText(text), given the environment and what the service
\* answers if it is asked.  Configured: the adapter is awaited and its
\* fields are returned, the date converted with new Date (null if invalid);
\* only an adapter call that threw would fall through to the regex parser.
\* Not configured: the regex parser.  confidence is kept in hundredths.
parseTransactionText(text, env, bedrock) ==
    LET extracted == extractTransactionWithBedrock(bedrock)
    IN  IF isBedrockConfigured(env) /\ extracted # Thrown
        THEN [amount |-> extracted.amount,
              date |-> IF Truthy(extracted.date) /\ NewDate(extracted.date).valid
                       THEN NewDate(extracted.date) ELSE NULL,
              description |-> extracted.description,
              category |-> extracted.category,
              confidence |-> extracted.confidence.v]
        ELSE RegexResult[text]

-----------------------------------------------------------------------------
(* The persistence engine: prisma.transaction on PostgreSQL *)

\* prisma.transaction.create({ data }): the engine adds the generated id and
\* createdAt/updatedAt = now; ids are unique and never reused.
createTransaction(data) ==
    [id |-> Cardinality(transactions) + 1,
     createdAt |-> clock,
     updatedAt |-> clock] @@ data

\* Matching with the where filter lost once a cursor is given.
MatchingUnscoped(organizationId, cursor) ==
    LET cur == {t \in transactions : t.id = cursor}
    IN  IF cursor = NoCursor
        THEN {t \in transactions : t.organizationId = organizationId}
        ELSE {t \in transactions : \E c \in cur : t.createdAt <= c.createdAt}

\* The rows findMany selects: the where filter on organizationId and, with a
\* cursor, the rows whose createdAt is not after the createdAt of the row
\* the cursor names (the cursor row is looked up by id alone, and the
\* comparison is <=, so that the cursor row and its ties are selected and
\* skip: 1 is what drops a row). A cursor naming no row selects nothing.
Matching(organizationId, cursor) ==
    LET inOrg == {t \in transactions : t.organizationId = organizationId}
        cur == {t \in transactions : t.id = cursor}
    IN  IF cursor = NoCursor THEN inOrg
        ELSE {t \in inOrg : \E c \in cur : t.createdAt <= c.createdAt}

\* ORDER BY "createdAt" DESC: every order of the rows that is descending in
\* createdAt; the order among equal createdAt is the database's choice.
RECURSIVE DbOrders(_)
DbOrders(S) ==
    IF S = {} THEN {<<>>}
    ELSE UNION {{<<r>> \o s : s \in DbOrders(S \ {r})} :
                r \in {x \in S : \A y \in S : y.createdAt <= x.createdAt}}

\* findMany({ where, take, cursor, skip, orderBy }) for one database order.
findMany(ord, take, skip) ==
    SubSeq(ord, skip + 1, Min(Len(ord), skip + take))

-----------------------------------------------------------------------------
(* lib/transaction.ts *)

\* getTransactions(params), given the order the database returned.
getTransactions(params, ord) ==
    LET limit == IF params.limit = 0 THEN DefaultLimit ELSE params.limit
        fetched == findMany(ord, limit + 1,
                            IF params.cursor = NoCursor THEN 0 ELSE 1)
        hasMore == Len(fetched) > limit
        items == IF hasMore THEN SubSeq(fetched, 1, Len(fetched) - 1)
                 ELSE fetched
        nextCursor == IF hasMore THEN items[Len(items)].id ELSE NoCursor
    IN  [items |-> items, nextCursor |-> nextCursor, hasMore |-> hasMore,
         fetched |-> fetched]

\* Every result getTransactions(params) can return in the current state.
GetTransactionsResults(params) ==
    {getTransactions(params, ord) :
        ord \in DbOrders(Matching(params.organizationId, params.cursor))}

\* getTransactionById(id, organizationId): findFirst({ where: { id, organizationId } })
\* A lookup by id alone.
getTransactionByIdUnscoped(id, organizationId) ==
    LET found == {t \in transactions : t.id = id}
    IN  IF found = {} THEN NULL ELSE CHOOSE t \in found : TRUE

\* getTransactionById(id, organizationId): findFirst({ where: { id,
\* organizationId } }), null when no row matches.
getTransactionById(id, organizationId) ==
    LET found == {t \in transactions :
                    t.id = id /\ t.organizationId = organizationId}
    IN  IF found = {} THEN NULL ELSE CHOOSE t \in found : TRUE

-----------------------------------------------------------------------------
(* Specification Spec: the store under direct calls of the library *)

Idle == [state |-> "idle"]

RateKeys == {"user:user1", "user:user2"}

\* The addresses a request may name in x-forwarded-for or x-real-ip, and
\* the keys the default key generator gives to requests without a user.
Addresses == {"203.0.113.7"}
IpKeys == {"ip:unknown", "ip:203.0.113.7"}
LimiterKeys == RateKeys \cup IpKeys

\* No request is inside next() in this slot.
Free == [key |-> "free", resetTime |-> 0]

\* The rate limiter after start-up: rateLimitStore is an empty Map, and
\* rateLimit(config) has not been called.  window, tally, passes and last
\* record what happened, for the properties: the start of each key's
\* current window, the requests counted in it, the times of the passes
\* within the last windowMs, the number of requests of each user that were
\* passed on (up to maxRequests), and the latest decision.
RateInit ==
    [config |-> [built |-> FALSE, skipSuccessfulRequests |-> FALSE,
                 skipFailedRequests |-> FALSE],
     now |-> 0,
     store |-> [k \in {} |-> 0],
     inflight |-> [i \in 1..MaxInFlight |-> Free],
     window |-> [k \in LimiterKeys |-> 0 - 1],
     tally |-> [k \in LimiterKeys |-> 0],
     passes |-> [k \in LimiterKeys |-> <<>>],
     sent |-> [u \in Users |-> 0],
     last |-> [key |-> "none"]]

\* The TransactionsList component before it is mounted with an
\* organization: the initial values of its useState hooks, no call in
\* flight.
ViewInit ==
    [organizationId |-> "none",
     transactions |-> <<>>,
     loading |-> TRUE,
     error |-> FALSE,
     nextCursor |-> NoCursor,
     hasMore |-> FALSE,
     loadingMore |-> FALSE,
     calls |-> <<>>]

TypeData(org, user) ==
    [text |-> String(<<"t">>), amount |-> NULL, date |-> NULL, description |-> NULL,
     category |-> NULL, confidence |-> 0,
     organizationId |-> org, userId |-> user]

StoreInit ==
    /\ transactions = {}
    /\ clock = 0

Init ==
    /\ StoreInit
    /\ lastCall = Idle
    /\ walk = Idle
    /\ parse = Idle
    /\ organizations = {}
    /\ members = {}
    /\ req = Idle
    /\ rate = RateInit
    /\ view = ViewInit

\* A row is created (by any request of any member), dt milliseconds after
\* the row before it.
Create ==
    \E dt \in {0, 1}, org \in Orgs :
        /\ clock + dt <= MaxClock
        /\ clock' = clock + dt
        /\ transactions' = transactions \cup
              {[createTransaction(TypeData(org, "u1")) EXCEPT !.createdAt = clock',
                                                             !.updatedAt = clock']}

CreateTransaction ==
    /\ Cardinality(transactions) < MaxTxn
    /\ Create
    /\ UNCHANGED <<view, lastCall, walk, parse, httpVars, rate>>

\* getTransactions is called with any organization, limit and cursor.
CallGetTransactions ==
    /\ \E org \in Orgs, limit \in 0..MaxLimit, cursor \in 0..(MaxTxn + 1) :
          LET params == [organizationId |-> org, limit |-> limit, cursor |-> cursor]
          IN  \E res \in GetTransactionsResults(params) :
                lastCall' = [state |-> "getTransactions", params |-> params,
                             result |-> res, rows |-> Cardinality(transactions)]
    /\ UNCHANGED <<view, transactions, clock, walk, parse, httpVars, rate>>

Next ==
    \/ CreateTransaction
    \/ CallGetTransactions

Spec == Init /\ [][Next]_vars

-----------------------------------------------------------------------------
(* Properties of getTransactions under Spec *)

OrgIds(org) == {t.id : t \in {x \in transactions : x.organizationId = org}}

AllIdsOf(rows) == {t.id : t \in rows}

\* items is in createdAt-descending order and begins no later than `from`.
Descending(items, from) ==
    /\ \A i \in 1..Len(items) : items[i].createdAt <= from
    /\ \A i, j \in 1..Len(items) : i < j => items[i].createdAt >= items[j].createdAt

\* The call lastCall records was answered from the table as it is now.
Fresh == lastCall.rows = Cardinality(transactions)

Row(id) == CHOOSE t \in transactions : t.id = id

InOrg(org) == {t \in transactions : t.organizationId = org}

\* The rows of the organization that come after the cursor row when the
\* organization's rows are listed newest first, the cursor row excluded.
AfterCursor(org, cursor) ==
    IF cursor = NoCursor THEN InOrg(org)
    ELSE {t \in InOrg(org) : t.id # cursor /\ t.createdAt <= Row(cursor).createdAt}

Range(seq) == {seq[i] : i \in 1..Len(seq)}

NoRepeat(seq) == \A i, j \in 1..Len(seq) : i # j => seq[i] # seq[j]

\* C1: getTransactions over-fetches limit+1 rows of the organization that
\* come strictly after the cursor row (the cursor row excluded), newest
\* first; with limit+1 rows fetched hasMore is true, the page is the first
\* limit of them and nextCursor is the id of the page's last row; otherwise
\* hasMore is false, nextCursor is null and the page is all that was fetched.
C1_OverFetch ==
    (/\ lastCall.state = "getTransactions"
     /\ Fresh
     /\ lastCall.params.limit >= 1
     /\ \/ lastCall.params.cursor = NoCursor
        \/ lastCall.params.cursor \in OrgIds(lastCall.params.organizationId))
    => LET p == lastCall.params
           r == lastCall.result
           after == AfterCursor(p.organizationId, p.cursor)
           n == Len(r.fetched)
       IN  /\ Range(r.fetched) \subseteq after
           /\ NoRepeat(r.fetched)
           /\ n = Min(p.limit + 1, Cardinality(after))
           /\ Descending(r.fetched, MaxClock)
           /\ \A t \in after \ Range(r.fetched) :
                 \A i \in 1..n : t.createdAt <= r.fetched[i].createdAt
           /\ IF n = p.limit + 1
              THEN /\ r.hasMore
                   /\ r.items = SubSeq(r.fetched, 1, p.limit)
                   /\ r.nextCursor = r.items[p.limit].id
              ELSE /\ ~r.hasMore
                   /\ r.nextCursor = NoCursor
                   /\ r.items = r.fetched

\* C6: every item getTransactions returns belongs to the requested
\* organization, for every limit and every cursor, also a cursor that
\* names a row of another organization or no row at all.
C6_OrgIsolation ==
    lastCall.state = "getTransactions"
    => \A i \in 1..Len(lastCall.result.items) :
          lastCall.result.items[i].organizationId = lastCall.params.organizationId

\* C6 witness: a call whose cursor names a row of another organization
\* returned a row.
C6_Witness ==
    /\ lastCall.state = "getTransactions"
    /\ Fresh
    /\ lastCall.params.cursor \in AllIdsOf(transactions)
    /\ Row(lastCall.params.cursor).organizationId # lastCall.params.organizationId
    /\ Len(lastCall.result.items) >= 1

-----------------------------------------------------------------------------
(* Specification SpecWalk: a cursor walk while rows may be created *)

WalkParams == [organizationId |-> walk.org, limit |-> walk.limit,
               cursor |-> walk.cursor]

WalkUnderWay ==
    /\ walk.state = "walking"
    /\ walk.hasMore
    /\ Len(walk.sizes) < MaxPages

\* A row is created before the walk begins.
CreateBeforeWalk ==
    /\ walk.state = "idle"
    /\ Cardinality(transactions) < MaxWalkTxn
    /\ Create
    /\ UNCHANGED <<view, lastCall, walk, parse, httpVars, rate>>

\* A row is created by a concurrent request between two fetches of the walk,
\* while the table holds fewer than MaxWalkTxn rows.
CreateDuringWalk ==
    /\ WalkUnderWay
    /\ Cardinality(transactions) < MaxWalkTxn
    /\ Cardinality(transactions) < walk.rows + MaxInserts
    /\ Create
    /\ UNCHANGED <<view, lastCall, walk, parse, httpVars, rate>>

AllIds == 1..MaxWalkTxn

Ids(items) == [i \in 1..Len(items) |-> items[i].id]

\* What the walk has collected after one more page: how often each id was
\* returned, the page sizes, whether the concatenation of the pages is in
\* createdAt-descending order, and the latest page.
Collect(w, params, res) ==
    [w EXCEPT !.asked = params,
              !.cursor = res.nextCursor,
              !.hasMore = res.hasMore,
              !.sizes = Append(@, Len(res.items)),
              !.page = Ids(res.items),
              !.returned = [id \in AllIds |->
                  @[id] + Cardinality({i \in 1..Len(res.items) : res.items[i].id = id})],
              !.sorted = @ /\ Descending(res.items, w.tail),
              !.tail = IF res.items = <<>> THEN @
                       ELSE res.items[Len(res.items)].createdAt]

\* The first fetch of a walk: no cursor.
WalkStart ==
    /\ walk.state = "idle"
    /\ \E org \in Orgs, limit \in 1..MaxLimit :
          LET params == [organizationId |-> org, limit |-> limit, cursor |-> NoCursor]
              w0 == [state |-> "walking", org |-> org, limit |-> limit,
                     start |-> OrgIds(org), rows |-> Cardinality(transactions),
                     asked |-> params, cursor |-> NoCursor, hasMore |-> TRUE,
                     sizes |-> <<>>, page |-> <<>>,
                     returned |-> [id \in AllIds |-> 0],
                     sorted |-> TRUE, tail |-> MaxClock]
          IN  \E res \in GetTransactionsResults(params) :
                walk' = Collect(w0, params, res)
    /\ UNCHANGED <<view, transactions, clock, lastCall, parse, httpVars, rate>>

\* The next fetch of the walk: the cursor is the nextCursor just returned.
WalkNext ==
    /\ WalkUnderWay
    /\ \E res \in GetTransactionsResults(WalkParams) :
          walk' = Collect(walk, WalkParams, res)
    /\ UNCHANGED <<view, transactions, clock, lastCall, parse, httpVars, rate>>

NextWalk ==
    \/ CreateBeforeWalk
    \/ CreateDuringWalk
    \/ WalkStart
    \/ WalkNext

SpecWalk == Init /\ [][NextWalk]_vars

-----------------------------------------------------------------------------
(* Properties of a cursor walk under SpecWalk *)

\* No row of the walk's organization was created since the walk began.
Unchanged == OrgIds(walk.org) = walk.start

\* No row at all was created since the walk began.
StoreUnchanged == Cardinality(transactions) = walk.rows

\* ceil(n / l), and 1 for n = 0: the page fetches a walk over n rows needs.
PagesNeeded(n, l) == IF n = 0 THEN 1 ELSE (n + l - 1) \div l

ExampleN == 5
ExampleL == 2

\* C2: over an unchanged set of N rows of one organization and any limit L,
\* the walk ends with a page whose hasMore is false, and the pages together
\* are exactly the N rows, each once, newest first; for N = 5 and L = 2 the
\* page sizes are 2, 2, 1.
C2_WalkComplete ==
    (walk.state = "walking" /\ Unchanged)
    => LET n == Cardinality(walk.start)
       IN  /\ Len(walk.sizes) >= PagesNeeded(n, walk.limit) => ~walk.hasMore
           /\ ~walk.hasMore =>
                 /\ \A id \in AllIds :
                       walk.returned[id] = IF id \in walk.start THEN 1 ELSE 0
                 /\ walk.sorted
           /\ (n = ExampleN /\ walk.limit = ExampleL /\ ~walk.hasMore)
                 => walk.sizes = <<2, 2, 1>>

\* Rows of the walk's organization that share their createdAt with another.
Tied == {id \in walk.start :
            \E other \in walk.start :
                other # id /\ Row(other).createdAt = Row(id).createdAt}

\* C3: rows of one organization with an identical createdAt are ordered by
\* a stable secondary order: over an unchanged store the same
\* (organizationId, limit, cursor) always returns the same page, and a
\* cursor walk neither repeats nor skips any of the tied rows.
C3_TieBreak ==
    (walk.state = "walking" /\ StoreUnchanged)
    => /\ \A res \in GetTransactionsResults(walk.asked) :
             Ids(res.items) = walk.page
       /\ \A id \in Tied : walk.returned[id] <= 1
       /\ ~walk.hasMore => \A id \in Tied : walk.returned[id] = 1

\* C4: when rows are created in the organization between the page fetches
\* of a walk, every row that existed when the walk began is still returned
\* exactly once by the walk, and no row appears in two pages.
C4_StableUnderInserts ==
    walk.state = "walking"
    => /\ \A id \in AllIds : walk.returned[id] <= 1
       /\ ~walk.hasMore => \A id \in walk.start : walk.returned[id] = 1

-----------------------------------------------------------------------------
(* Specification SpecParse: parseTransactionText on sample texts, in every *)
(* environment, against every sample answer of the service                 *)

Envs == [AWS_REGION : BOOLEAN, AWS_ACCESS_KEY_ID : BOOLEAN,
         AWS_SECRET_ACCESS_KEY : BOOLEAN]

AmountValues == {Undefined, NULL, Number(42000), Number(0 - 42000),
                 String(<<"4", "2", "0">>), Infinity, NegativeInfinity}
DateValues == {NULL,
               String(<<"2", "0", "2", "5", "-", "1", "2", "-", "1", "1">>),
               String(<<"2", "0", "2", "5", "-", "1", "3", "-", "4", "5">>)}
DescriptionValues == {NULL, String(<<"S", "T", "A", "R", "B", "U", "C", "K", "S">>),
                      Number(500)}
CategoryValues == {NULL, String(<<"S", "h", "o", "p", "p", "i", "n", "g">>),
                   String(<<"G", "r", "o", "c", "e", "r", "i", "e", "s">>),
                   Number(500)}
ConfidenceValues == {Undefined, Number(95), Number(150)}

\* The JSON objects the service may answer with.
JsonObjects ==
    {[t |-> "object", amount |-> a, date |-> d, description |-> s,
      category |-> c, confidence |-> k] :
        a \in AmountValues, d \in DateValues, s \in DescriptionValues,
        c \in CategoryValues, k \in ConfidenceValues}

SampleObject ==
    [t |-> "object", amount |-> Number(42000),
     date |-> String(<<"2", "0", "2", "5", "-", "1", "2", "-", "1", "1">>),
     description |-> String(<<"S", "T", "A", "R", "B", "U", "C", "K", "S">>),
     category |-> String(<<"S", "h", "o", "p", "p", "i", "n", "g">>),
     confidence |-> Number(95)]

Answer(send, wrap, json) == [send |-> send, wrap |-> wrap, json |-> json]

NoAnswer == Answer("none", "none", NULL)

\* What the service may do when it is called.
BedrockAnswers ==
    {Answer("text", "bare", j) : j \in JsonObjects \cup {NULL, Number(42000), Object}}
    \cup {Answer("text", w, SampleObject) : w \in {"fenced", "embedded"}}
    \cup {Answer("text", w, NULL) : w \in {"none", "broken"}}
    \cup {Answer(s, "none", NULL) : s \in {"rejects", "malformed"}}

\* The service failed, or its response cannot be parsed into a JSON object.
AiFailed(bedrock) ==
    \/ bedrock.send \in {"rejects", "malformed"}
    \/ bedrock.wrap \in {"none", "broken"}
    \/ bedrock.json.t # "object"

\* parseTransactionText begins: the environment is read; if Bedrock is
\* configured the adapter is called and awaited, otherwise the regex parser
\* gives the result at once.  service: whether the inference service will
\* ever answer the call, or leave it without any response.
ParseBegin ==
    /\ parse.state = "idle"
    /\ \E text \in Texts, env \in Envs :
          \E service \in IF isBedrockConfigured(env) THEN {"responds", "silent"}
                         ELSE {"unused"} :
          parse' = [state |-> IF isBedrockConfigured(env) THEN "awaiting" ELSE "done",
                    text |-> text, env |-> env, bedrock |-> NoAnswer,
                    service |-> service,
                    aiCalls |-> IF isBedrockConfigured(env) THEN 1 ELSE 0,
                    result |-> IF isBedrockConfigured(env) THEN NULL
                               ELSE parseTransactionText(text, env, NoAnswer)]
    /\ UNCHANGED <<view, transactions, clock, lastCall, walk, httpVars, rate>>

\* The awaited adapter call settles, and parseTransactionText returns.
\* client.send is given no timeout and no abort signal: it settles only
\* when the service answers or the connection fails.
ParseSettle ==
    /\ parse.state = "awaiting"
    /\ parse.service = "responds"
    /\ \E bedrock \in BedrockAnswers :
          parse' = [parse EXCEPT
                      !.state = "done",
                      !.bedrock = bedrock,
                      !.result = parseTransactionText(parse.text, parse.env, bedrock)]
    /\ UNCHANGED <<view, transactions, clock, lastCall, walk, httpVars, rate>>

NextParse ==
    \/ ParseBegin
    \/ ParseSettle

SpecParse == Init /\ [][NextParse]_vars

\* The event loop runs what is ready, and a service that answers does so
\* in the end.
SpecParseLive ==
    SpecParse /\ WF_vars(ParseBegin) /\ WF_vars(ParseSettle)

-----------------------------------------------------------------------------
(* Properties of parseTransactionText (SpecParse) *)

\* The call of parseTransactionText has returned.
ParseDone == parse.state = "done"

\* The result holds exactly what the adapter returned (the date converted
\* by new Date, null when it is missing or invalid).
FromAdapter(result, extracted) ==
    /\ result.amount = extracted.amount
    /\ result.description = extracted.description
    /\ result.category = extracted.category
    /\ result.confidence = extracted.confidence.v
    /\ result.date = IF Truthy(extracted.date) /\ NewDate(extracted.date).valid
                     THEN NewDate(extracted.date) ELSE NULL

\* C8: when Bedrock is configured and the AI extraction fails (the service
\* call fails, or its response cannot be parsed into a JSON object), the
\* result of parseTransactionText is the regex parser's result for the text.
C8_FallbackOnFailure ==
    (ParseDone /\ isBedrockConfigured(parse.env) /\ AiFailed(parse.bedrock))
        => parse.result = RegexResult[parse.text]

\* C9: when Bedrock is not configured the AI adapter is never invoked and
\* the result is exactly the regex parser's result; and in every case all
\* the fields of the result come from one strategy: the result is either
\* the regex parser's result or the adapter's answer, never a mix.
C9_SingleStrategy ==
    ParseDone =>
        /\ ~isBedrockConfigured(parse.env) =>
              /\ parse.aiCalls = 0
              /\ parse.result = RegexResult[parse.text]
        /\ \/ parse.result = RegexResult[parse.text]
           \/ FromAdapter(parse.result, extractTransactionWithBedrock(parse.bedrock))

\* With only part of the AWS variables set, the regex parser's result (with
\* an amount) is returned and the adapter was not called.
C9_Witness ==
    /\ ParseDone
    /\ parse.env.AWS_REGION
    /\ ~isBedrockConfigured(parse.env)
    /\ parse.aiCalls = 0
    /\ parse.result = RegexResult[parse.text]
    /\ parse.result.amount # NULL

-----------------------------------------------------------------------------
(* routes/transactions.ts behind requireAuth, and the frontend proxy *)

None == "none"      \* no user; a header or parameter that is absent

MinLimit == 1       \* limit < 1 is answered 400
MaxRouteLimit == 100    \* limit > 100 is answered 400
DefaultLimitQuery == <<"2", "0">>   \* c.req.query('limit') || '20'

NaN == [t |-> "nan"]

\* parseInt(str, 10): the digits str begins with (after white space and a
\* sign) as a number, NaN if there are none.
parseInt(str) ==
    LET Parse(x) ==
            LET from == IF At(x, 0) \in {"-", "+"} THEN 1 ELSE 0
                n == Run(x, from, Digit, Len(x))
                v == DigitsValue(SubSeq(x, from + 1, from + n))
            IN  IF n = 0 THEN NaN
                ELSE Number(IF At(x, 0) = "-" THEN 0 - v ELSE v)
    IN  With(trim(str), Parse)

\* The credentials the frontend proxy forwards for the user of its NextAuth
\* session (handleRequest answers 401 itself when there is no session, and
\* forwards no cookie): the X-User-Id and X-User-Email headers.
Forwarded(user) ==
    [via |-> "proxy", nextAuth |-> user, session |-> None,
     xUserId |-> user, xUserEmail |-> TRUE]

\* The credentials of a request sent to the backend itself: a Better Auth
\* session (or none) and whatever headers the sender chose.
Direct(session, xUserId, xUserEmail) ==
    [via |-> "direct", nextAuth |-> None, session |-> session,
     xUserId |-> xUserId, xUserEmail |-> xUserEmail]

\* requireAuth: the user the request is handled for, None for 401.  The
\* user of the Better Auth session if there is one; otherwise the user the
\* X-User-Id header names, when X-User-Email is there too.
requireAuth(request) ==
    IF request.session # None THEN request.session
    ELSE IF request.xUserId # None /\ request.xUserEmail THEN request.xUserId
    ELSE None

\* A lookup that gives every organization, whoever asks.
getEveryOrganization(userId) == organizations

\* getUserOrganizations(userId): the organizations of the user's memberships.
getUserOrganizations(userId) ==
    {m.organizationId : m \in {x \in members : x.userId = userId}}

\* prisma.transaction.create validates data against the model: text String,
\* amount Float?, date DateTime?, description String?, category String?.
PrismaAccepts(data) ==
    /\ data.text.t = "string"
    /\ data.amount.t \in {"number", "null"}
    /\ data.date.t \in {"date", "null"}
    /\ data.description.t \in {"string", "null"}
    /\ data.category.t \in {"string", "null"}

ErrorBody(error) == [error |-> error]

\* The response of a handler, written into the request.
Respond(status, body) ==
    req' = [req EXCEPT !.state = "responded", !.status = status, !.body = body]

\* The limit getTransactions is given: NaN is falsy, as 0 is.
LimitParam(limit) == IF limit.t = "number" THEN limit.v ELSE 0

-----------------------------------------------------------------------------
(* Specification SpecHttp: requests to the transaction routes *)

TextValues == {Undefined, Number(500), String(TextShort)}
LimitQueries == {Undefined, String(<<"0">>), String(<<"1">>),
                 String(<<"1", "0", "1">>), String(<<"a", "b", "c">>)}

Credentials ==
    {Forwarded(u) : u \in Users}
    \cup {Direct("u1", None, FALSE), Direct(None, None, FALSE),
          Direct(None, "u1", TRUE), Direct(None, "u1", FALSE)}

HttpEnvs == {e \in Envs : e.AWS_REGION = e.AWS_ACCESS_KEY_ID
                          /\ e.AWS_REGION = e.AWS_SECRET_ACCESS_KEY}

HttpAnswers ==
    {Answer("rejects", "none", NULL),
     Answer("text", "none", NULL),
     Answer("text", "bare", SampleObject),
     Answer("text", "bare", [SampleObject EXCEPT !.category = Number(500)]),
     Answer("text", "bare", [SampleObject EXCEPT !.confidence = Number(150)]),
     Answer("text", "bare", [SampleObject EXCEPT !.confidence = Number(0 - 20)]),
     Answer("text", "bare",
            [SampleObject EXCEPT !.confidence = String(<<"h", "i", "g", "h">>)]),
     Answer("text", "embedded", [SampleObject EXCEPT !.confidence = Undefined]),
     Answer("text", "fenced",
            [SampleObject EXCEPT
               !.amount = String(<<"4", "2", "0">>),
               !.date = String(<<"2", "0", "2", "5", "-", "1", "3", "-", "4", "5">>)])}

\* The calls parseTransactionText makes: the adapter when Bedrock is
\* configured, the regex parser when it is not or the adapter call threw.
ParseCalls(env, bedrock) ==
    [ai |-> IF isBedrockConfigured(env) THEN 1 ELSE 0,
     regex |-> IF /\ isBedrockConfigured(env)
                  /\ extractTransactionWithBedrock(bedrock) # Thrown
               THEN 0 ELSE 1]

\* hasOrganizationRole(userId, organizationId, 'admin')
IsAdmin(userId, organizationId) ==
    \E m \in members : /\ m.userId = userId
                       /\ m.organizationId = organizationId
                       /\ m.role \in {"owner", "admin"}

\* createOrganization: an organization is created; its creator becomes its
\* owner.
CreateOrganization ==
    /\ req.state = "idle"
    /\ \E org \in Orgs, user \in Users :
          /\ org \notin organizations
          /\ organizations' = organizations \cup {org}
          /\ members' = members \cup
                {[organizationId |-> org, userId |-> user, role |-> "owner"]}
    /\ UNCHANGED <<view, transactions, clock, lastCall, walk, parse, req, rate>>

\* DELETE /organizations/:id/members/:userId, sent by an admin or owner of
\* the organization: removeUserFromOrganization deletes the membership.  It
\* is handled while a request to the transaction routes may be in flight.
RemoveMember ==
    /\ \E m \in members :
          /\ \E requester \in Users : IsAdmin(requester, m.organizationId)
          /\ members' = members \ {m}
    /\ UNCHANGED <<view, transactions, clock, lastCall, walk, parse, organizations,
                   req, rate>>

Request(cred, outage, route, organizationId, text, id, limit, cursor) ==
    cred @@ [state |-> "received", outage |-> outage, route |-> route,
             organizationId |-> organizationId, text |-> text, id |-> id,
             limit |-> limit, cursor |-> cursor,
             user |-> None, checked |-> "none", aiCalls |-> 0,
             regexCalls |-> 0, created |-> 0,
             parsed |-> NULL, status |-> 0, body |-> NULL]

\* A request arrives: POST /extract with a JSON body, GET / or GET /:id
\* with query parameters.  outage: the database is unreachable while the
\* request is handled.
Receive ==
    /\ req.state = "idle"
    /\ \E cred \in Credentials, outage \in BOOLEAN, org \in Orgs \cup {None} :
          \/ /\ Cardinality(transactions) < MaxHttpTxn
             /\ \E text \in TextValues :
                   req' = Request(cred, outage, "extract", org, text, 0,
                                  Undefined, NoCursor)
          \/ \E limit \in LimitQueries, cursor \in 0..MaxHttpTxn :
                req' = Request(cred, outage, "list", org, Undefined, 0,
                               limit, cursor)
          \/ \E id \in 1..(MaxHttpTxn + 1) :
                req' = Request(cred, outage, "get", org, Undefined, id,
                               Undefined, NoCursor)
    /\ UNCHANGED <<view, transactions, clock, lastCall, walk, parse, organizations,
                 members, rate>>

\* The requireAuth middleware: 401, or the user is set and the handler runs.
RequireAuth ==
    /\ req.state = "received"
    /\ IF requireAuth(req) = None
       THEN Respond(401, ErrorBody("Unauthorized - Please login"))
       ELSE req' = [req EXCEPT !.state = "handler", !.user = requireAuth(req)]
    /\ UNCHANGED <<view, transactions, clock, lastCall, walk, parse, organizations,
                 members, rate>>

\* The limit of GET /: parseInt(c.req.query('limit') || '20', 10).
RouteLimit == parseInt(IF Truthy(req.limit) THEN req.limit.v ELSE DefaultLimitQuery)

\* The handler's validation of its input, <<>> when it passes.
Invalid ==
    CASE req.route = "extract" ->
            IF ~Truthy(req.text) \/ req.text.t # "string"
            THEN <<"Text is required and must be a string">>
            ELSE IF req.organizationId = None
            THEN <<"organizationId is required">>
            ELSE <<>>
      [] req.route = "list" ->
            IF RouteLimit.t = "number"
               /\ (RouteLimit.v < MinLimit \/ RouteLimit.v > MaxRouteLimit)
            THEN <<"Limit must be between 1 and 100">>
            ELSE IF req.organizationId = None
            THEN <<"organizationId query parameter is required">>
            ELSE <<>>
      [] req.route = "get" ->
            IF req.organizationId = None
            THEN <<"organizationId query parameter is required">>
            ELSE <<>>

\* The body of the 500 answer of the route's catch.
Failure ==
    CASE req.route = "extract" -> ErrorBody("Failed to extract transaction")
      [] req.route = "list" -> ErrorBody("Failed to fetch transactions")
      [] req.route = "get" -> ErrorBody("Failed to fetch transaction")

\* Whether the table holds a membership of the request's user in the
\* request's organization, at the moment of the access check.
Membership ==
    IF \E m \in members : /\ m.userId = req.user
                          /\ m.organizationId = req.organizationId
    THEN "member" ELSE "notMember"

\* The handler up to its access check: 400 for invalid input, 500 when
\* getUserOrganizations throws, 403 for a user who is not a member.
CheckAccess ==
    /\ req.state = "handler"
    /\ IF Invalid # <<>> THEN Respond(400, ErrorBody(Invalid[1]))
       ELSE IF req.outage THEN Respond(500, Failure)
       ELSE IF req.organizationId \notin getUserOrganizations(req.user)
       THEN req' = [req EXCEPT
                      !.state = "responded", !.checked = Membership,
                      !.status = 403,
                      !.body = ErrorBody("You do not have access to this organization")]
       ELSE req' = [req EXCEPT !.state = "granted", !.checked = Membership]
    /\ UNCHANGED <<view, transactions, clock, lastCall, walk, parse, organizations,
                 members, rate>>

\* POST /extract: parseTransactionText(text), in the environment the server
\* runs in and with whatever the service answers when it is called.
Parse ==
    /\ req.state = "granted"
    /\ req.route = "extract"
    /\ \E env \in HttpEnvs :
          \E bedrock \in IF isBedrockConfigured(env) THEN HttpAnswers
                         ELSE {NoAnswer} :
             req' = [req EXCEPT
                       !.state = "parsed",
                       !.aiCalls = ParseCalls(env, bedrock).ai,
                       !.regexCalls = ParseCalls(env, bedrock).regex,
                       !.parsed = parseTransactionText(req.text.v, env, bedrock)]
    /\ UNCHANGED <<view, transactions, clock, lastCall, walk, parse, organizations,
                 members, rate>>

\* The data POST /extract hands to createTransaction.
ExtractData ==
    [text |-> req.text,
     amount |-> req.parsed.amount,
     date |-> req.parsed.date,
     description |-> req.parsed.description,
     category |-> req.parsed.category,
     confidence |-> req.parsed.confidence,
     organizationId |-> req.organizationId,
     userId |-> req.user]

\* POST /extract: createTransaction and the 201 answer; 500 when the create
\* throws.
Persist ==
    /\ req.state = "parsed"
    /\ IF PrismaAccepts(ExtractData)
       THEN \E dt \in {0, 1} :
               /\ clock + dt <= MaxClock
               /\ clock' = clock + dt
               /\ LET row == [createTransaction(ExtractData) EXCEPT
                                !.createdAt = clock', !.updatedAt = clock']
                  IN  /\ transactions' = transactions \cup {row}
                      /\ req' = [req EXCEPT
                                   !.state = "responded",
                                   !.created = Cardinality(transactions')
                                               - Cardinality(transactions),
                                   !.status = 201, !.body = row]
       ELSE /\ Respond(500, Failure)
            /\ UNCHANGED <<transactions, clock>>
    /\ UNCHANGED <<view, lastCall, walk, parse, organizations, members, rate>>

\* GET /: getTransactions and the 200 answer.
List ==
    /\ req.state = "granted"
    /\ req.route = "list"
    /\ \E res \in GetTransactionsResults(
                     [organizationId |-> req.organizationId,
                      limit |-> LimitParam(RouteLimit),
                      cursor |-> req.cursor]) :
          Respond(200, [items |-> res.items, nextCursor |-> res.nextCursor,
                        hasMore |-> res.hasMore, count |-> Len(res.items)])
    /\ UNCHANGED <<view, transactions, clock, lastCall, walk, parse, organizations,
                 members, rate>>

\* GET /:id: getTransactionById, 404 when it returns null.
GetById ==
    /\ req.state = "granted"
    /\ req.route = "get"
    /\ LET transaction == getTransactionById(req.id, req.organizationId)
       IN  IF transaction = NULL
           THEN Respond(404, ErrorBody("Transaction not found"))
           ELSE Respond(200, transaction)
    /\ UNCHANGED <<view, transactions, clock, lastCall, walk, parse, organizations,
                 members, rate>>

\* The response is delivered and the request is over.
Close ==
    /\ req.state = "responded"
    /\ req' = Idle
    /\ UNCHANGED <<view, transactions, clock, lastCall, walk, parse, organizations,
                 members, rate>>

NextHttp ==
    \/ CreateOrganization
    \/ RemoveMember
    \/ Receive
    \/ RequireAuth
    \/ CheckAccess
    \/ Parse
    \/ Persist
    \/ List
    \/ GetById
    \/ Close

SpecHttp == Init /\ [][NextHttp]_vars

-----------------------------------------------------------------------------
(* Properties of the routes (SpecHttp) *)

Responded == req.state = "responded"

\* The rows with the given id in the given organization.
RowsOf(id, org) == {t \in transactions : t.id = id /\ t.organizationId = org}

\* The users the request carries a valid session of: the user of its
\* Better Auth session, or the user of the NextAuth session the proxy
\* checked before it forwarded the request.
SessionUsers == {req.session, req.nextAuth} \ {None}

\* C5: getTransactionById(id, organizationId) returns a record only if the
\* record is of that organization; for an id that exists under another
\* organization it returns null, as for an id that does not exist; and
\* GET /:id then answers a member of the queried organization 404
\* 'Transaction not found', and 200 with the record only when the record
\* is of the queried organization.
C5_NotFoundAcrossOrgs ==
    /\ \A id \in 1..(MaxHttpTxn + 1), org \in Orgs :
          IF RowsOf(id, org) = {} THEN getTransactionById(id, org) = NULL
          ELSE getTransactionById(id, org) \in RowsOf(id, org)
    /\ (/\ Responded
        /\ req.route = "get"
        /\ ~req.outage
        /\ req.user # None
        /\ req.organizationId \in getUserOrganizations(req.user))
          => IF RowsOf(req.id, req.organizationId) = {}
             THEN /\ req.status = 404
                  /\ req.body = ErrorBody("Transaction not found")
             ELSE /\ req.status = 200
                  /\ req.body \in RowsOf(req.id, req.organizationId)

\* A member of the queried organization asked for an id that exists under
\* another organization, and was answered 404.
C5_Witness ==
    /\ Responded
    /\ req.route = "get"
    /\ req.user # None
    /\ req.organizationId \in getUserOrganizations(req.user)
    /\ \E t \in transactions :
          t.id = req.id /\ t.organizationId # req.organizationId
    /\ req.status = 404

\* C7: a request is handled on behalf of user U only if it carries a valid
\* session issued to U; every request without a valid session is answered
\* 401; and an organization's transactions are returned to, or created
\* for, only a requester with a valid session of a member of it.
C7_AuthenticatedOnly ==
    /\ req.state \notin {"idle", "received"} /\ req.user # None
          => req.user \in SessionUsers
    /\ Responded /\ SessionUsers = {} => req.status = 401
    /\ Responded /\ req.status \in {200, 201}
          => \E u \in SessionUsers :
                req.organizationId \in getUserOrganizations(u)

\* C10: for an authenticated member sending a valid body, POST /extract
\* answers 201 with the persisted transaction whatever the AI service
\* does, as long as the database is available; it answers 500 only when
\* the database is unavailable.
C10_ExtractNeverFails ==
    (Responded /\ req.route = "extract") =>
        /\ (/\ req.user # None
            /\ Invalid = <<>>
            /\ req.organizationId \in getUserOrganizations(req.user)
            /\ ~req.outage)
              => req.status = 201 /\ req.body \in transactions
        /\ req.status = 500 => req.outage

\* C11: on POST /extract the validation of the input and the membership
\* check come before any extraction work: a request with missing or
\* non-string text or missing organizationId is answered 400, a request of
\* a user who is not a member of organizationId is answered 403, and for
\* neither is the AI adapter called, the regex parser run or a row created.
C11_ChecksBeforeWork ==
    (req.state # "idle" /\ req.route = "extract") =>
        /\ (Invalid # <<>> \/ req.checked # "member") =>
              /\ req.aiCalls = 0
              /\ req.regexCalls = 0
              /\ req.created = 0
              /\ req.parsed = NULL
        /\ (Responded /\ req.user # None /\ Invalid # <<>>) => req.status = 400
        /\ (Responded /\ req.checked = "notMember") => req.status = 403
        /\ (Responded /\ req.status \in {400, 403}) =>
              /\ Invalid # <<>> \/ req.checked = "notMember"
              /\ req.aiCalls = 0 /\ req.regexCalls = 0 /\ req.created = 0

\* A valid body from an authenticated user who is not a member of the
\* organization was answered 403, with no parse and no row.
C11_Witness ==
    /\ Responded
    /\ req.route = "extract"
    /\ Invalid = <<>>
    /\ req.user # None
    /\ req.organizationId \in organizations
    /\ req.checked = "notMember"
    /\ req.status = 403
    /\ req.parsed = NULL
    /\ transactions = {}

\* C12: every stored transaction's organizationId is an organization of
\* which its userId was a member at the moment the row was created, also
\* when a membership is removed while the extract request is in flight.
C12_MemberAtCreation ==
    [][\A t \in transactions' \ transactions :
          \E m \in members : /\ m.userId = t.userId
                             /\ m.organizationId = t.organizationId]_vars

\* C13: the AI call is bounded by a timeout: also when the inference
\* service never responds, a call of parseTransactionText that awaits the
\* adapter completes in the end.
C13_ParseCompletes == (parse.state = "awaiting") ~> (parse.state = "done")

\* C14: the confidence of the result of parseTransactionText is a number
\* in [0, 1] (here 0..100 hundredths) on the AI path, whatever confidence
\* the service gave and when the adapter failed, and on the regex path; and
\* that value is the confidence of the row that is persisted.
C14_ConfidenceInUnit ==
    /\ (req.state # "idle" /\ req.parsed # NULL) =>
          req.parsed.confidence \in 0..100
    /\ \A t \in transactions : t.confidence \in 0..100
    /\ (Responded /\ req.status = 201) =>
          /\ req.body \in transactions
          /\ req.body.confidence = req.parsed.confidence

\* The service's answer was taken (its amount) but not its confidence, for
\* which 0.5 was persisted.
C14_Witness ==
    /\ Responded
    /\ req.status = 201
    /\ req.aiCalls = 1
    /\ req.body.amount = SampleObject.amount
    /\ req.body.confidence = 50
    /\ req.body \in transactions

\* C15: on the regex path a text with no recognizable field (no amount, no
\* date, no category keyword), such as "zzz qqq", gets confidence exactly 0.
C15_ZeroConfidence ==
    (/\ ParseDone
     /\ ~isBedrockConfigured(parse.env)
     /\ parse.result.amount = NULL
     /\ parse.result.date = NULL
     /\ parse.result.category = NULL)
        => parse.result.confidence = 0

\* C16: the amount of a parsed or stored transaction is never negative:
\* whatever minus sign or debit marker the text or the service's answer
\* carries, the amount is null or a number >= 0.
C16_AmountNotNegative ==
    /\ ParseDone =>
          \/ parse.result.amount = NULL
          \/ parse.result.amount.t = "number" /\ parse.result.amount.v >= 0
    /\ \A t \in transactions :
          \/ t.amount = NULL
          \/ t.amount.t = "number" /\ t.amount.v >= 0

\* The regex parser captured "-42" from "Rs -420.00" and returned 42.
C16_Witness ==
    /\ ParseDone
    /\ ~isBedrockConfigured(parse.env)
    /\ parse.text = TextMinus
    /\ parse.result.amount = Number(4200)

\* The categories the prompt of the adapter enumerates.
Categories ==
    {<<"F", "o", "o", "d", " ", "&", " ", "D", "i", "n", "i", "n", "g">>,
     <<"S", "h", "o", "p", "p", "i", "n", "g">>,
     <<"T", "r", "a", "n", "s", "p", "o", "r", "t", "a", "t", "i", "o", "n">>,
     <<"E", "n", "t", "e", "r", "t", "a", "i", "n", "m", "e", "n", "t">>,
     <<"U", "t", "i", "l", "i", "t", "i", "e", "s">>,
     <<"H", "e", "a", "l", "t", "h", "c", "a", "r", "e">>,
     <<"T", "r", "a", "n", "s", "f", "e", "r">>,
     <<"I", "n", "c", "o", "m", "e">>,
     <<"O", "t", "h", "e", "r">>}

\* C17: the category parseTransactionText returns is null or one of the
\* nine enumerated values, never a freeform string, on either path and for
\* any answer of the service.
C17_CategoryEnumerated ==
    ParseDone =>
        \/ parse.result.category = NULL
        \/ /\ parse.result.category.t = "string"
           /\ parse.result.category.v \in Categories

\* A limit was supplied and is not a number within [1, 100].
LimitOutOfRange ==
    /\ Truthy(req.limit)
    /\ \/ RouteLimit.t # "number"
       \/ RouteLimit.v < MinLimit
       \/ RouteLimit.v > MaxRouteLimit

\* C18: GET / answers 400, without querying the store, whenever the limit
\* supplied is outside [1, 100] (0, above 100, or not a number) or
\* organizationId is missing; an absent limit means 20.
C18_LimitValidated ==
    (Responded /\ req.route = "list" /\ req.user # None) =>
        /\ (LimitOutOfRange \/ req.organizationId = None) =>
              /\ req.status = 400
              /\ req.checked = "none"
        /\ req.limit = Undefined => RouteLimit = Number(DefaultLimit)

-----------------------------------------------------------------------------
(* middleware/rateLimit.ts *)

RateConfigs ==
    [built : {TRUE}, skipSuccessfulRequests : BOOLEAN,
     skipFailedRequests : BOOLEAN]

\* now > entry.resetTime
Expired(entry, now) == now > entry.resetTime

\* cleanupExpiredEntries(now) on the store.
cleanupExpiredEntries(store, now) ==
    [k \in {x \in DOMAIN store : ~Expired(store[x], now)} |-> store[k]]

\* rateLimitStore.set(key, entry)
StoreSet(store, key, entry) ==
    [k \in DOMAIN store \cup {key} |-> IF k = key THEN entry ELSE store[k]]

\* A check that lets one more request through.
ExceededAbove(entry) == entry.count > MaxRequests

\* entry.count >= maxRequests
Exceeded(entry) == entry.count >= MaxRequests

\* The counter is incremented before next(): neither skip option is set.
CountsAtEntry(config) ==
    ~config.skipSuccessfulRequests /\ ~config.skipFailedRequests

\* The counter is incremented after next(), given the status of c.res.
CountsAtExit(config, status) ==
    LET isSuccess == status >= 200 /\ status < 400
        isFailed == status >= 400
    IN  /\ config.skipSuccessfulRequests \/ config.skipFailedRequests
        /\ ~config.skipSuccessfulRequests \/ ~isSuccess
        /\ ~config.skipFailedRequests \/ ~isFailed

\* The times of a log that are within the last windowMs before now.
Recent(log, now) == SelectSeq(log, LAMBDA t : t > now - WindowMs)

-----------------------------------------------------------------------------
(* Specification SpecRate: requests of two keys through one rate limiter *)

\* rateLimit(config): the middleware is built.
RateConfigure ==
    /\ ~rate.config.built
    /\ \E config \in RateConfigs : rate' = [rate EXCEPT !.config = config]
    /\ UNCHANGED <<view, transactions, clock, lastCall, walk, parse, httpVars>>

\* Time passes.
RateTick ==
    /\ rate.now < MaxTime
    /\ rate' = [rate EXCEPT
                  !.now = @ + 1,
                  !.passes = [k \in LimiterKeys |-> Recent(rate.passes[k], rate.now + 1)]]
    /\ UNCHANGED <<view, transactions, clock, lastCall, walk, parse, httpVars>>

\* The lowest free slot for a request inside next().
FreeSlot == SetMin({i \in 1..MaxInFlight : rate.inflight[i] = Free})

\* What the request of a key records about the key's window: a request
\* that arrives after the end of the window starts a new window, in which
\* nothing is counted yet.
Arrival(key) ==
    LET fresh == rate.window[key] < 0 \/ rate.now > rate.window[key] + WindowMs
    IN  [fresh |-> fresh,
         window |-> IF fresh THEN rate.now ELSE rate.window[key],
         tally |-> IF fresh THEN 0 ELSE rate.tally[key]]

\* The middleware up to next(), for a request with the given key sent by
\* the given user (None when the sender does not matter): now and then the
\* expired entries are cleaned up; the entry of the key is taken, or made
\* anew when there is none or it has expired; 429 when its count has
\* reached maxRequests, otherwise the count is incremented (unless a skip
\* option is set) and next() is called.
Through(key, cleanup, user) ==
          LET now == rate.now
              cleaned == IF cleanup THEN cleanupExpiredEntries(rate.store, now)
                         ELSE rate.store
              isNew == key \notin DOMAIN cleaned \/ Expired(cleaned[key], now)
              entry == IF isNew THEN [count |-> 0, resetTime |-> now + WindowMs]
                       ELSE cleaned[key]
              a == Arrival(key)
          IN  IF Exceeded(entry)
              THEN rate' = [rate EXCEPT
                              !.store = StoreSet(cleaned, key, entry),
                              !.window[key] = a.window,
                              !.tally[key] = a.tally,
                              !.last = [key |-> key, passed |-> FALSE, status |-> 429,
                                        before |-> a.tally, fresh |-> a.fresh,
                                        user |-> user]]
              ELSE /\ Len(rate.passes[key]) < MaxPassLog
                   /\ CountsAtEntry(rate.config)
                         \/ \E i \in 1..MaxInFlight : rate.inflight[i] = Free
                   /\ rate' = [rate EXCEPT
                              !.store = StoreSet(cleaned, key,
                                  IF CountsAtEntry(rate.config)
                                  THEN [entry EXCEPT !.count = @ + 1] ELSE entry),
                              !.inflight = IF CountsAtEntry(rate.config) THEN @
                                           ELSE [@ EXCEPT ![FreeSlot] =
                                                   [key |-> key,
                                                    resetTime |-> entry.resetTime]],
                              !.window[key] = a.window,
                              !.tally[key] = IF CountsAtEntry(rate.config)
                                             THEN a.tally + 1 ELSE a.tally,
                              !.passes[key] = Append(@, now),
                              !.sent = IF user = None THEN @
                                       ELSE [@ EXCEPT ![user] = Min(@ + 1, MaxRequests)],
                              !.last = [key |-> key, passed |-> TRUE, status |-> 0,
                                        before |-> a.tally, fresh |-> a.fresh,
                                        user |-> user]]

\* A request goes through a limiter whose keyGenerator gives one of the
\* keys of RateKeys.
RateEnter ==
    /\ rate.config.built
    /\ \E key \in RateKeys, cleanup \in BOOLEAN : Through(key, cleanup, None)
    /\ UNCHANGED <<view, transactions, clock, lastCall, walk, parse, httpVars>>

\* The middleware after next() has returned, with a skip option set: the
\* count of the entry the request took is incremented unless the status of
\* the response is one to skip.  The entry is the object taken before
\* next(): when the store holds a newer entry of the key by now, the
\* increment is lost.
RateExit ==
    /\ \E i \in 1..MaxInFlight, status \in {200, 500} :
          /\ rate.inflight[i] # Free
          /\ LET r == rate.inflight[i]
                 current == /\ r.key \in DOMAIN rate.store
                            /\ rate.store[r.key].resetTime = r.resetTime
                 counts == CountsAtExit(rate.config, status)
                 inWindow == rate.window[r.key] + WindowMs = r.resetTime
             IN  rate' = [rate EXCEPT
                            !.inflight[i] = Free,
                            !.store = IF counts /\ current
                                      THEN [@ EXCEPT ![r.key].count = @ + 1]
                                      ELSE @,
                            !.tally[r.key] = IF counts /\ inWindow THEN @ + 1 ELSE @]
    /\ UNCHANGED <<view, transactions, clock, lastCall, walk, parse, httpVars>>

NextRate ==
    \/ RateConfigure
    \/ RateTick
    \/ RateEnter
    \/ RateExit

SpecRate == Init /\ [][NextRate]_vars

-----------------------------------------------------------------------------
(* Properties of the rate limiter *)

\* The middleware has decided about a request.
Decided == rate.last.key # "none"

\* C19: a request of a key is passed on to next() iff fewer than
\* maxRequests requests of the key have been counted in the key's current
\* window, and is answered 429 otherwise; the count kept for a key is the
\* number of its own requests counted in its window, whatever the other
\* keys do; the first request after the window's resetTime finds a new
\* window with nothing counted, and is passed.
C19_PassIffBelowLimit ==
    /\ Decided =>
          /\ rate.last.passed <=> rate.last.before < MaxRequests
          /\ ~rate.last.passed => rate.last.status = 429
          /\ rate.last.fresh => rate.last.before = 0 /\ rate.last.passed
    /\ \A k \in DOMAIN rate.store :
          rate.store[k].resetTime = rate.window[k] + WindowMs =>
              rate.store[k].count = rate.tally[k]

\* The first request of a key after its window has ended is passed while
\* the other key has used up its window.
C19_Witness ==
    /\ Decided
    /\ rate.last.passed
    /\ rate.last.fresh
    /\ rate.now > WindowMs
    /\ \E k \in RateKeys :
          /\ k # rate.last.key
          /\ rate.tally[k] = MaxRequests
          /\ rate.window[k] + WindowMs >= rate.now
          /\ k \in DOMAIN rate.store
          /\ rate.store[k].count = MaxRequests

\* C20: with neither skip option set, at most maxRequests requests of a
\* key are passed to the handler within any span of windowMs.
C20_SlidingWindow ==
    (rate.config.built /\ CountsAtEntry(rate.config)) =>
        \A k \in RateKeys : Len(rate.passes[k]) <= MaxRequests

-----------------------------------------------------------------------------
(* index.ts: the global rate limit *)

\* `user:${userId}` for the users of the model.
UserKey(userId) == IF userId = "u1" THEN "user:user1" ELSE "user:user2"

\* `ip:${ip}` for the addresses of the model.
IpKey(ip) == "ip:203.0.113.7"

\* The default keyGenerator: the user of the context if there is one,
\* otherwise the address of x-forwarded-for, of x-real-ip, or 'unknown'.
keyGenerator(user, forwarded, realIp) ==
    IF user # None THEN UserKey(user)
    ELSE IF forwarded # None THEN IpKey(forwarded)
    ELSE IF realIp # None THEN IpKey(realIp)
    ELSE "ip:unknown"

\* c.get('user') when the global limiter runs: app.use('/*', rateLimit(...))
\* comes before the routes, and only requireAuth, a middleware of the
\* routes, sets the user of the context.
ContextUserAtLimiter(user) == None

\* app.use('/*', rateLimit({windowMs, maxRequests})): no skip option.
GlobalConfigure ==
    /\ ~rate.config.built
    /\ rate' = [rate EXCEPT !.config = [built |-> TRUE,
                                        skipSuccessfulRequests |-> FALSE,
                                        skipFailedRequests |-> FALSE]]
    /\ UNCHANGED <<view, transactions, clock, lastCall, walk, parse, httpVars>>

\* An authenticated user sends a request to any route: through the proxy of
\* the frontend, whose fetch names no address, or through a reverse proxy
\* that does.
GlobalRequest ==
    /\ rate.config.built
    /\ \E user \in Users, forwarded \in {None} \cup Addresses,
          realIp \in {None} \cup Addresses, cleanup \in BOOLEAN :
          Through(keyGenerator(ContextUserAtLimiter(user), forwarded, realIp),
                  cleanup, user)
    /\ UNCHANGED <<view, transactions, clock, lastCall, walk, parse, httpVars>>

NextGlobal ==
    \/ GlobalConfigure
    \/ RateTick
    \/ GlobalRequest

SpecGlobal == Init /\ [][NextGlobal]_vars

\* C21: a request of an authenticated user is answered 429 by the global
\* limiter only when maxRequests requests of that same user were passed on
\* before.
C21_PerUser ==
    (Decided /\ rate.last.user # None /\ ~rate.last.passed) =>
        rate.sent[rate.last.user] >= MaxRequests

-----------------------------------------------------------------------------
(* lib/organization.ts and routes/organization.ts: members and roles *)

Roles == {"owner", "admin", "member"}

\* const roleHierarchy = { owner: 3, admin: 2, member: 1 }
roleHierarchy == [owner |-> 3, admin |-> 2, member |-> 1]

\* findUnique by userId_organizationId: the rows of the user in the
\* organization, at most one.
MembersOf(userId, organizationId) ==
    {m \in members : m.userId = userId /\ m.organizationId = organizationId}

\* A check that asks for exactly the required role.
hasExactRole(userId, organizationId, requiredRole) ==
    \E member \in MembersOf(userId, organizationId) : member.role = requiredRole

\* hasOrganizationRole(userId, organizationId, requiredRole)
hasOrganizationRole(userId, organizationId, requiredRole) ==
    \E member \in MembersOf(userId, organizationId) :
        roleHierarchy[member.role] >= roleHierarchy[requiredRole]

\* updateUserRole: the role of the row is set.
updateUserRole(userId, organizationId, role) ==
    {IF m.userId = userId /\ m.organizationId = organizationId
     THEN [m EXCEPT !.role = role] ELSE m : m \in members}

\* addUserToOrganization: a row is created.
addUserToOrganization(userId, organizationId, role) ==
    members \cup {[organizationId |-> organizationId, userId |-> userId,
                   role |-> role]}

-----------------------------------------------------------------------------
(* Specification SpecOrg: requests to the member routes *)

\* The role the requester has in the organization when the request is
\* handled, None for a user who is not a member.
RoleOf(userId, organizationId) ==
    IF MembersOf(userId, organizationId) = {} THEN None
    ELSE (CHOOSE m \in MembersOf(userId, organizationId) : TRUE).role

\* The request to a member route, with its answer.
MemberAnswer(route, requester, organizationId, userId, role, status, rows) ==
    [state |-> "responded", route |-> route, requester |-> requester,
     was |-> RoleOf(requester, organizationId),
     organizationId |-> organizationId, userId |-> userId, role |-> role,
     status |-> status, changed |-> rows # members]

\* POST /organizations/:id/members by an authenticated user: 400 without
\* userId, 403 unless the requester is admin or owner, 409 when the user is
\* a member already, else addUserToOrganization and 201.  role is 'member'
\* when the body has none.
AddMember ==
    /\ req.state = "idle"
    /\ \E requester \in Users, id \in Orgs, userId \in Users \cup {None},
          role \in Roles \cup {None} :
          LET given == IF role = None THEN "member" ELSE role
              rows == IF userId = None THEN members
                      ELSE IF ~hasOrganizationRole(requester, id, "admin")
                      THEN members
                      ELSE IF MembersOf(userId, id) # {} THEN members
                      ELSE addUserToOrganization(userId, id, given)
              status == IF userId = None THEN 400
                        ELSE IF ~hasOrganizationRole(requester, id, "admin")
                        THEN 403
                        ELSE IF MembersOf(userId, id) # {} THEN 409
                        ELSE 201
          IN  /\ members' = rows
              /\ req' = MemberAnswer("addMember", requester, id, userId, role,
                                     status, rows)
    /\ UNCHANGED <<view, transactions, clock, lastCall, walk, parse, organizations,
                   rate>>

\* PUT /organizations/:id/members/:userId by an authenticated user: 400
\* without role, 403 unless the requester is admin or owner, 500 when the
\* update finds no row, else updateUserRole and 200.
UpdateRole ==
    /\ req.state = "idle"
    /\ \E requester \in Users, id \in Orgs, userId \in Users,
          role \in Roles \cup {None} :
          LET permitted == hasOrganizationRole(requester, id, "admin")
              rows == IF role = None \/ ~permitted THEN members
                      ELSE updateUserRole(userId, id, role)
              status == IF role = None THEN 400
                        ELSE IF ~permitted THEN 403
                        ELSE IF MembersOf(userId, id) = {} THEN 500
                        ELSE 200
          IN  /\ members' = rows
              /\ req' = MemberAnswer("updateRole", requester, id, userId, role,
                                     status, rows)
    /\ UNCHANGED <<view, transactions, clock, lastCall, walk, parse, organizations,
                   rate>>

NextOrg ==
    \/ CreateOrganization
    \/ AddMember
    \/ UpdateRole
    \/ RemoveMember
    \/ Close

SpecOrg == Init /\ [][NextOrg]_vars

\* C22: a change of role is permitted only to an owner of the
\* organization: a requester who is admin, member or no member is answered
\* 403 when the body names a role, and no role changes.
C22_OwnerOnly ==
    (Responded /\ req.route = "updateRole" /\ req.was # "owner") =>
        /\ ~req.changed
        /\ req.role # None => req.status = 403

\* The required roles each role passes: owner all three, admin the checks
\* for admin and member, member only the check for member.
Passes ==
    [owner |-> {"owner", "admin", "member"},
     admin |-> {"admin", "member"},
     member |-> {"member"}]

\* C23: hasOrganizationRole(userId, organizationId, requiredRole) is true
\* iff the user is a member of the organization whose role passes
\* requiredRole in the hierarchy owner > admin > member, and false for a
\* user who is not a member; so the member routes, which require admin,
\* answer 403 exactly to members and non-members.
C23_RoleHierarchy ==
    /\ \A userId \in Users, organizationId \in Orgs, requiredRole \in Roles :
          hasOrganizationRole(userId, organizationId, requiredRole)
             <=> /\ RoleOf(userId, organizationId) # None
                 /\ requiredRole \in Passes[RoleOf(userId, organizationId)]
    /\ (Responded /\ req.route \in {"addMember", "updateRole"}) =>
          /\ req.status = 403 => req.was \in {"member", None}
          /\ req.status \in {200, 201} => req.was \in {"owner", "admin"}

\* A member of an organization that has an owner asked for a change of
\* role and was answered 403.
C23_Witness ==
    /\ Responded
    /\ req.route = "updateRole"
    /\ req.was = "member"
    /\ req.status = 403
    /\ hasOrganizationRole(req.requester, req.organizationId, "member")
    /\ ~hasOrganizationRole(req.requester, req.organizationId, "admin")
    /\ \E userId \in Users :
          hasOrganizationRole(userId, req.organizationId, "owner")

\* C28: every organization has at least one member whose role is owner.
C28_OwnerRemains ==
    \A organizationId \in organizations :
        \E m \in members : /\ m.organizationId = organizationId
                           /\ m.role = "owner"

-----------------------------------------------------------------------------
(* Properties of the regex parser (SpecParse) *)

\* parseTransactionText took the regex path and has returned.
RegexDone == ParseDone /\ ~isBedrockConfigured(parse.env)

\* C24: on the regex path "Amazon Purchase Rs. 1,500.50 dated 15-12-2024"
\* yields the amount 1500.50 (150050 hundredths): the grouping separators
\* are stripped and the decimal part is kept.
C24_GroupedAmount ==
    (RegexDone /\ parse.text = TextAmazon) =>
        parse.result.amount = Number(150050)

\* C25: on the regex path "Starbucks Coffee 12/15/2024 ₹420.00" yields
\* amount 420.00, the date 15 December 2024, a description that contains
\* "Starbucks Coffee", category "Food & Dining" and a confidence above 0.8.
C25_StarbucksExample ==
    (RegexDone /\ parse.text = TextStarbucks) =>
        /\ parse.result.amount = Number(42000)
        /\ parse.result.date # NULL
        /\ parse.result.date.valid
        /\ parse.result.date.year = 2024
        /\ parse.result.date.month = 12
        /\ parse.result.date.day = 15
        /\ parse.result.description # NULL
        /\ includes(parse.result.description.v,
                    SubSeq(TextStarbucks, 1, 16))
        /\ parse.result.category = String(categoryKeywords[1].cat)
        /\ parse.result.confidence > 80

\* The line carries alphabetic content.
HasLetter(line) == \E i \in 1..Len(line) : line[i] \in Letter

\* C27: the description of the regex parser is the first non-empty line
\* that carries alphabetic content, trimmed and cut to 255 characters; a
\* line of digits, currency symbols and punctuation only is not chosen
\* while a later line carries alphabetic content; the first line is used
\* only when no line carries alphabetic content.
C27_DescriptionLine ==
    RegexDone =>
        LET lines == Lines(parse.text)
            alphabetic == {i \in 1..Len(lines) : HasLetter(lines[i])}
        IN  IF alphabetic # {}
            THEN parse.result.description =
                    String(substring(trim(lines[SetMin(alphabetic)]), MaxDescription))
            ELSE IF Len(lines) > 0
            THEN parse.result.description = String(substring(lines[1], MaxDescription))
            ELSE parse.result.description = NULL

-----------------------------------------------------------------------------
(* Properties of the adapter's sanitization (SpecParse) *)

\* C26: on the AI path the amount of the result is a number only if the
\* service gave a finite number, of which it is the absolute value; for
\* every other value (absent, no number, Infinity or -Infinity) it is null.
C26_FiniteAmount ==
    (ParseDone /\ isBedrockConfigured(parse.env)) =>
        \/ parse.result.amount = NULL
        \/ /\ ResponseJson(parse.bedrock) # <<>>
           /\ LET given == Get(ResponseJson(parse.bedrock)[1], "amount")
              IN  /\ isFinite(given)
                  /\ parse.result.amount =
                        Number(IF given.v < 0 THEN 0 - given.v ELSE given.v)

-----------------------------------------------------------------------------
(* Properties of the rate limiter with skip options (SpecRate) *)

\* C29: whatever the skip options, at most maxRequests requests of a key
\* that are passed to the handler end up counted in one window of the key,
\* also when several requests of the key are inside next() at once.
C29_CountedWithinLimit ==
    \A k \in RateKeys : rate.tally[k] <= MaxRequests

-----------------------------------------------------------------------------
(* components/transactions-list.tsx: TransactionsList *)

\* loadTransactions(cursor, append) up to its await: the loading flag of
\* the kind of load is set, the error is cleared, and getTransactions is
\* called with the organizationId of the render the function belongs to.
loadTransactions(v, cursor, append) ==
    [v EXCEPT
       !.loading = IF append THEN @ ELSE TRUE,
       !.loadingMore = IF append THEN TRUE ELSE @,
       !.error = FALSE,
       !.calls = Append(@, [organizationId |-> v.organizationId,
                            cursor |-> cursor, append |-> append])]

\* The calls in flight without call i.
Without(calls, i) ==
    SubSeq(calls, 1, i - 1) \o SubSeq(calls, i + 1, Len(calls))

\* The component renders the list: no spinner and no error panel.
Displayed ==
    /\ view.organizationId # "none"
    /\ ~view.loading
    /\ ~view.error

-----------------------------------------------------------------------------
(* Specification SpecList: the component against the store *)

\* A row is created on the server.
ListCreate ==
    /\ Cardinality(transactions) < MaxListTxn
    /\ Create
    /\ UNCHANGED <<view, lastCall, walk, parse, httpVars, rate>>

\* The organizationId prop changes (the component is mounted with an
\* organization, or another organization is selected): the effect runs
\* loadTransactions().
SelectOrganization ==
    /\ Len(view.calls) < MaxCalls
    /\ \E org \in Orgs :
          /\ org # view.organizationId
          /\ view' = loadTransactions([view EXCEPT !.organizationId = org],
                                      NoCursor, FALSE)
    /\ UNCHANGED <<transactions, clock, lastCall, walk, parse, httpVars, rate>>

\* refreshTrigger changes, or the refresh button or Try Again is clicked:
\* loadTransactions().
Refresh ==
    /\ view.organizationId # "none"
    /\ Len(view.calls) < MaxCalls
    /\ view' = loadTransactions(view, NoCursor, FALSE)
    /\ UNCHANGED <<transactions, clock, lastCall, walk, parse, httpVars, rate>>

\* The Load More button, which is rendered with the list when hasMore is
\* set, is clicked: handleLoadMore calls loadTransactions(nextCursor, true)
\* when there is a nextCursor and loadingMore is not set.
LoadMore ==
    /\ Displayed
    /\ Len(view.transactions) > 0
    /\ view.hasMore
    /\ view.nextCursor # NoCursor
    /\ ~view.loadingMore
    /\ Len(view.calls) < MaxCalls
    /\ Len(view.transactions) + ListLimit * Len(view.calls) + ListLimit <= MaxShown
    /\ view' = loadTransactions(view, view.nextCursor, TRUE)
    /\ UNCHANGED <<transactions, clock, lastCall, walk, parse, httpVars, rate>>

\* A call in flight settles, in any order: with the page the server
\* answers, which is appended to the list or replaces it and whose
\* nextCursor and hasMore are taken, or with an error, which is shown; in
\* both cases loading and loadingMore are cleared.
Settle ==
    /\ \E i \in 1..Len(view.calls) :
          LET call == view.calls[i]
          IN  \/ \E response \in GetTransactionsResults(
                                    [organizationId |-> call.organizationId,
                                     limit |-> ListLimit,
                                     cursor |-> call.cursor]) :
                    view' = [view EXCEPT
                               !.transactions = IF call.append
                                                THEN @ \o response.items
                                                ELSE response.items,
                               !.nextCursor = response.nextCursor,
                               !.hasMore = response.hasMore,
                               !.loading = FALSE,
                               !.loadingMore = FALSE,
                               !.calls = Without(@, i)]
              \/ view' = [view EXCEPT
                            !.error = TRUE,
                            !.loading = FALSE,
                            !.loadingMore = FALSE,
                            !.calls = Without(@, i)]
    /\ UNCHANGED <<transactions, clock, lastCall, walk, parse, httpVars, rate>>

NextList ==
    \/ ListCreate
    \/ SelectOrganization
    \/ Refresh
    \/ LoadMore
    \/ Settle

SpecList == Init /\ [][NextList]_vars

\* C30: the list the component displays holds only transactions of the
\* selected organization and no transaction id twice, and its hasMore and
\* nextCursor are those of the page the list ends with.
C30_ListConsistent ==
    Displayed =>
        /\ \A i \in 1..Len(view.transactions) :
              view.transactions[i].organizationId = view.organizationId
        /\ \A i, j \in 1..Len(view.transactions) :
              i # j => view.transactions[i].id # view.transactions[j].id
        /\ view.hasMore =>
              /\ Len(view.transactions) > 0
              /\ view.nextCursor = view.transactions[Len(view.transactions)].id
        /\ ~view.hasMore => view.nextCursor = NoCursor

====
